---- MODULE Spec2Model ----
(***************************************************************************)
(* Model of ClientAdapter (src/index.js, the classified-error variant,     *)
(* lines 721-1697): the transactional document lifecycle of a FireModel    *)
(* instance against a Firestore-like store.                                *)
(*                                                                         *)
(* The store is four places: the live collection, its archive collection  *)
(* ({collectionPath}_archive), the collection's field of the counter       *)
(* document (.../meta/docCounter) and the Autonumbers collection.  A       *)
(* transaction buffers its writes; runTransaction applies them all when    *)
(* the body returns and none of them when the body throws.                 *)
(* The stamps createdAt, updatedAt and uid are written but read by no       *)
(* operation; they are left out of the document payload.                   *)
(***************************************************************************)
EXTENDS Integers, Sequences, FiniteSets, TLC

VARIABLES live, archive, counter, autonumbers, children, inst, class, result, snap,
          listener, docs, listeners, out, txns, ClientAdapter

vars == <<live, archive, counter, autonumbers, children, inst, class, result, snap,
          listener, docs, listeners, out, txns, ClientAdapter>>

(***************************************************************************)
(* Bounds of the model.                                                    *)
(***************************************************************************)
NumIds == 2
NumVals == 2
NumHasMany == 2
NumSubIds == 3
MaxIds == 65
MaxListeners == 3
MaxDelivered == 5
MaxChanges == 2
MaxLength == 2
MaxCounter == 2
NumClients == 2
MaxAttempts == 2
MaxCommits == 2
NumApps == 2
MaxAdapters == 3
MaxResets == 2
MaxConstraints == 3
MaxChars == 4

Ids == 1..NumIds
Vals == 1..NumVals
HasMany == 1..NumHasMany

\* A docId that is unset: `!this.docId` / `!docId` is true of it.
NoId == 0

(***************************************************************************)
(* Documents.  A value of a collection is what a DocumentSnapshot shows:   *)
(* exists() and the data.                                                  *)
(***************************************************************************)
\* updatedAt stands for the stamps an operation sets together (updatedAt and
\* uid): Earlier is what an instance holds before the operation stamps it,
\* Now what `new Date()` and the current user give during the call.
Earlier == 0
Now == 1
NoData == [docId |-> NoId, val |-> 0, code |-> <<>>, updatedAt |-> Earlier]
NoDoc == [exists |-> FALSE, data |-> NoData]
DocOf(d) == [exists |-> TRUE, data |-> d]

NoCounter == [exists |-> FALSE, count |-> 0]
NoAutonumber == [exists |-> FALSE, status |-> FALSE, current |-> 0, length |-> 0, field |-> ""]

\* Ids of the Autonumbers collection: the one the collection's document was
\* provisioned under, and one that doc(collectionRef) generates.
ProvisionedId == "collection"
GeneratedId == "generated"
AutonumberIds == {ProvisionedId, GeneratedId}

RECURSIVE Pow10(_)
Pow10(n) == IF n = 0 THEN 1 ELSE 10 * Pow10(n - 1)

\* String(n): the decimal digits of n >= 0, most significant first.
RECURSIVE String(_)
String(n) == IF n < 10 THEN <<n>> ELSE Append(String(n \div 10), n % 10)

\* s.padStart(length, "0")
RECURSIVE padStart(_, _)
padStart(s, length) == IF Len(s) >= length THEN s ELSE padStart(<<0>> \o s, length)

(***************************************************************************)
(* Buffered writes of a transaction and their commit.                      *)
(***************************************************************************)
W(op, coll, id, data, n) == [op |-> op, coll |-> coll, id |-> id, data |-> data, n |-> n]

DB == [live |-> live, archive |-> archive, counter |-> counter,
       autonumbers |-> autonumbers, ok |-> TRUE]

\* One write applied to the store.  transaction.update of a document that
\* does not exist fails the commit.
ApplyWrite(s, w) ==
  CASE w.op = "set" /\ w.coll = "live" ->
         [s EXCEPT !.live[w.id] = DocOf(w.data)]
    [] w.op = "set" /\ w.coll = "archive" ->
         [s EXCEPT !.archive[w.id] = DocOf(w.data)]
    [] w.op = "delete" /\ w.coll = "live" ->
         [s EXCEPT !.live[w.id] = NoDoc]
    [] w.op = "delete" /\ w.coll = "archive" ->
         [s EXCEPT !.archive[w.id] = NoDoc]
    [] w.op = "set" /\ w.coll = "counter" ->
         [s EXCEPT !.counter = [exists |-> TRUE, count |-> w.n]]
    [] w.op = "increment" /\ w.coll = "counter" ->
         IF s.counter.exists
           THEN [s EXCEPT !.counter.count = @ + w.n]
           ELSE [s EXCEPT !.ok = FALSE]
    [] w.op = "update" /\ w.coll = "autonumbers" ->
         IF s.autonumbers[w.id].exists
           THEN [s EXCEPT !.autonumbers[w.id].current = w.n]
           ELSE [s EXCEPT !.ok = FALSE]

RECURSIVE ApplyWrites(_, _)
ApplyWrites(s, ws) ==
  IF ws = <<>> THEN s ELSE ApplyWrites(ApplyWrite(s, Head(ws)), Tail(ws))

\* What a read hands back and what it did to get it: whether it was given a
\* transaction, whether the document was found, its data, the list of
\* documents, the queries issued with getDocs (each the ids or the descriptor
\* it asks for) and the warnings written to the console; for a subscription
\* call, whether the instance held a listener when it was made; for
\* hasChild, the descriptor it returned (0: false); for fetchDocsByIds, the
\* ids it was given; for a query builder, the constraints it was given and the
\* array it returned; for an operation that runs a transaction body, the
\* steps of the body's last execution in the order they were taken (events);
\* for an operation that joined its caller's transaction, whether the caller
\* caught the error it was rejected with (caught); for the firestore getter,
\* the handle it returned; for a snapshot whose callback unsubscribes, the
\* number of changes left to process then (item), the last of them (change)
\* and this.docs as that change found it (list).
NoOut == [transaction |-> FALSE, found |-> FALSE, data |-> NoData, list |-> <<>>,
          queries |-> <<>>, warns |-> <<>>, active |-> FALSE, item |-> 0,
          ids |-> [isArray |-> FALSE, items |-> <<>>],
          constraints |-> [type |-> "other", chars |-> <<>>, items |-> <<>>],
          built |-> <<>>, events |-> <<>>, caught |-> FALSE, handle |-> 0,
          change |-> <<>>]

(***************************************************************************)
(* The running operation: the error thrown so far ("" for none, "RAW" for  *)
(* an exception that is not a ClientAdapterError), the console log, the    *)
(* writes buffered in the transaction, the deferred updates, the instance, *)
(* whether the caller's callBack has run, the document reference the       *)
(* operation works on, what hasChild returned and whether create asked for *)
(* an autonumber.                                                          *)
(***************************************************************************)
Start(i) == [err |-> "", log |-> <<>>, writes |-> <<>>, updateAutonumber |-> <<>>,
             counterUpdater |-> <<>>, inst |-> i, cb |-> FALSE, ref |-> NoId,
             child |-> 0, auto |-> FALSE, out |-> NoOut, queries |-> <<>>]

Throw(c, e) == [c EXCEPT !.err = e]

\* The operation took a step: a hook ("beforeCreate", ...), a transactional
\* read ("get:counter", ...), a transactional write ("set:live", ...), the
\* caller's callBack or the return of its result.
Did(c, event) == [c EXCEPT !.out.events = Append(@, event)]

\* A step of an external collaborator (hook, validate, store read) that
\* throws when the fault is injected at it.
External(c, step, fault) ==
  IF c.err # "" THEN c
  ELSE IF fault = step THEN Throw(Did(c, step), "RAW") ELSE Did(c, step)

\* catch (err): a ClientAdapterError passes; anything else is logged with
\* the function's name and replaced by SYSTEM_UNKNOWN_ERROR.
_outputErrorConsole(c, funcName) == [c EXCEPT !.log = Append(@, funcName)]

Catch(c, funcName) ==
  IF c.err = "RAW"
    THEN Throw(_outputErrorConsole(c, funcName), "SYSTEM_UNKNOWN_ERROR")
    ELSE c


(***************************************************************************)
(* Autonumber Assigner and Counter Updater.                                *)
(***************************************************************************)
\* The ids doc(collectionRef) can generate in the Autonumbers collection: an
\* auto-generated id is one no document is stored under.
FreshAutonumberIds == {a \in AutonumberIds : ~autonumbers[a].exists}

\* The body of setAutonumber's try block.  docRef is
\* doc(collection(firestore, effectivePrefix + "Autonumbers")): a reference
\* with a generated id, since no id is passed to doc().
setAutonumberTry(c, docRef, fault) ==
  LET docSnap == autonumbers[docRef]
      newNumber == docSnap.current + 1
      length == docSnap.length
      maxValue == Pow10(length) - 1
      newCode == padStart(String(newNumber), length)
      g == Did(c, "get:autonumbers")
  IN IF fault = "get:autonumbers" THEN Throw(g, "RAW")
     ELSE IF ~docSnap.exists THEN Throw(g, "BUSINESS_AUTONUMBER_DOCUMENT_NOT_FOUND")
     ELSE IF ~docSnap.status THEN Throw(g, "BUSINESS_AUTONUMBER_DISABLED")
     ELSE IF newNumber > maxValue THEN Throw(g, "BUSINESS_AUTONUMBER_MAX_REACHED")
     ELSE [g EXCEPT !.inst.code = IF docSnap.field = "code" THEN newCode ELSE @,
                    !.updateAutonumber =
                       <<W("update", "autonumbers", docRef, NoData, newNumber)>>]

setAutonumber(c, transaction, docRef, fault) ==
  IF c.err # "" THEN c
  ELSE IF ~transaction THEN Throw(c, "VALIDATION_MISSING_TRANSACTION")
  ELSE Catch(setAutonumberTry(c, docRef, fault), "setAutonumber")

\* A counter updater that increments a present counter whatever it is asked.
getCounterUpdaterTryUp(c, increment, fault) ==
  LET g == Did(c, "get:counter")
  IN IF fault = "get:counter" THEN Throw(g, "RAW")
     ELSE IF ~counter.exists
       THEN [g EXCEPT !.counterUpdater =
               <<W("set", "counter", NoId, NoData, IF increment THEN 1 ELSE 0)>>]
       ELSE [g EXCEPT !.counterUpdater =
               <<W("increment", "counter", NoId, NoData, 1)>>]

\* The body of getCounterUpdater's try block: the deferred action sets the
\* collection's field when the counter document is absent and increments it
\* atomically when it is present.
getCounterUpdaterTry(c, increment, fault) ==
  LET g == Did(c, "get:counter")
  IN IF fault = "get:counter" THEN Throw(g, "RAW")
     ELSE IF ~counter.exists
       THEN [g EXCEPT !.counterUpdater =
               <<W("set", "counter", NoId, NoData, IF increment THEN 1 ELSE 0)>>]
       ELSE [g EXCEPT !.counterUpdater =
               <<W("increment", "counter", NoId, NoData, IF increment THEN 1 ELSE -1)>>]

getCounterUpdater(c, transaction, increment, fault) ==
  IF c.err # "" THEN c
  ELSE IF ~transaction THEN Throw(c, "VALIDATION_MISSING_TRANSACTION")
  ELSE Catch(getCounterUpdaterTry(c, increment, fault), "getCounterUpdater")

(***************************************************************************)
(* Steps of a transaction body.                                            *)
(***************************************************************************)
\* The step a buffered write is: txn.set and txn.delete of a document,
\* txn.set or txn.update of the counter document, txn.update of the
\* Autonumbers document.
EventOf(w) ==
  CASE w.coll = "counter" -> "write:counter"
    [] w.coll = "autonumbers" -> "update:autonumbers"
    [] w.coll = "live" -> IF w.op = "set" THEN "set:live" ELSE "delete:live"
    [] w.coll = "archive" -> IF w.op = "set" THEN "set:archive" ELSE "delete:archive"

\* txn.set(ref, data), txn.delete(ref): buffered, not yet in the store.
Set(c, coll, id, data, fault) ==
  IF c.err # "" THEN c
  ELSE IF fault = "write" THEN Throw(c, "RAW")
  ELSE LET w == W("set", coll, id, data, 0)
       IN [Did(c, EventOf(w)) EXCEPT !.writes = Append(@, w)]

Remove(c, coll, id, fault) ==
  IF c.err # "" THEN c
  ELSE IF fault = "write" THEN Throw(c, "RAW")
  ELSE LET w == W("delete", coll, id, NoData, 0)
       IN [Did(c, EventOf(w)) EXCEPT !.writes = Append(@, w)]

\* if (deferred) await deferred(): the deferred action writes in the
\* transaction.
Invoke(c, deferred) ==
  IF c.err # "" THEN c
  ELSE [c EXCEPT !.writes = @ \o deferred,
                 !.out.events = @ \o [k \in 1..Len(deferred) |-> EventOf(deferred[k])]]

\* if (callBack) await callBack(txn)
CallBack(c, callBack, fault) ==
  IF c.err # "" \/ callBack = "none" THEN c
  ELSE IF fault = "callBack" THEN Throw([Did(c, "callBack") EXCEPT !.cb = TRUE], "RAW")
  ELSE [Did(c, "callBack") EXCEPT !.cb = TRUE]

\* A runTransaction that commits what the body had buffered when it threw.
runTransactionPartial(c, fault) ==
  IF c.err # "" THEN c
  ELSE IF fault = "commit" \/ ~ApplyWrites(DB, c.writes).ok
    THEN Throw([c EXCEPT !.writes = <<>>], "RAW")
  ELSE c

\* runTransaction(firestore, performTransaction), given what the body did:
\* nothing is committed when the body threw or the commit fails.
runTransaction(c, fault) ==
  IF c.err # "" THEN [c EXCEPT !.writes = <<>>]
  ELSE IF fault = "commit" \/ ~ApplyWrites(DB, c.writes).ok
    THEN Throw([c EXCEPT !.writes = <<>>], "RAW")
  ELSE c


(***************************************************************************)
(* Document Lifecycle Orchestrator.                                        *)
(***************************************************************************)
\* Ids doc(colRef) can generate in the live collection.
FreshIds == {d \in Ids : ~live[d].exists /\ ~archive[d].exists}

\* A body whose document write depends on how often it has run on the
\* instance.
createBodyCounting(c, docRef, useAutonumber, callBack, autonumberRef, fault) ==
  LET b == getCounterUpdater(c, TRUE, TRUE, fault)
      m == IF b.err # "" THEN b
           ELSE [b EXCEPT !.inst.docId = docRef, !.inst.updatedAt = Now, !.ref = docRef,
                          !.inst.val = IF c.inst.docId = NoId THEN @ ELSE @ + 1]
      w == Set(m, "live", docRef, m.inst, fault)
      v == Invoke(w, w.counterUpdater)
      k == CallBack(v, callBack, fault)
  IN IF k.err # "" THEN k ELSE Did(k, "return")

\* A performTransaction(txn) that calls callBack before the deferred updates.
createBodyCallBackFirst(c, docRef, useAutonumber, callBack, autonumberRef, fault) ==
  LET a == IF class.useAutonumber /\ useAutonumber
             THEN setAutonumber([c EXCEPT !.auto = (c.err = "")], TRUE, autonumberRef, fault)
             ELSE c
      b == getCounterUpdater(a, TRUE, TRUE, fault)
      m == IF b.err # "" THEN b
           ELSE [b EXCEPT !.inst.docId = docRef, !.inst.updatedAt = Now, !.ref = docRef]
      w == Set(m, "live", docRef, m.inst, fault)
      k == CallBack(w, callBack, fault)
      u == Invoke(k, k.updateAutonumber)
      v == Invoke(u, u.counterUpdater)
  IN IF v.err # "" THEN v ELSE Did(v, "return")

\* create's performTransaction(txn); docRef is doc(colRef, docId) or the
\* generated doc(colRef).
createBody(c, docRef, useAutonumber, callBack, autonumberRef, fault) ==
  LET a == IF class.useAutonumber /\ useAutonumber
             THEN setAutonumber([c EXCEPT !.auto = (c.err = "")], TRUE, autonumberRef, fault)
             ELSE c
      b == getCounterUpdater(a, TRUE, TRUE, fault)
      m == IF b.err # "" THEN b
           ELSE [b EXCEPT !.inst.docId = docRef, !.inst.updatedAt = Now, !.ref = docRef]
      w == Set(m, "live", docRef, m.inst, fault)
      u == Invoke(w, w.updateAutonumber)
      v == Invoke(u, u.counterUpdater)
      k == CallBack(v, callBack, fault)
  IN IF k.err # "" THEN k ELSE Did(k, "return")

\* create({docId, useAutonumber, transaction, callBack}): the body runs in the
\* caller's transaction when one is given and in a transaction of its own
\* otherwise.
create(i, transaction, docRef, useAutonumber, callBack, autonumberRef, fault) ==
  IF callBack = "invalid" THEN Throw(Start(i), "VALIDATION_INVALID_CALLBACK")
  ELSE LET c1 == External(Start(i), "beforeCreate", fault)
           c2 == External(c1, "beforeEdit", fault)
           c3 == External(c2, "validate", fault)
           t == createBody(c3, docRef, useAutonumber, callBack, autonumberRef, fault)
       IN Catch(IF transaction THEN t ELSE runTransaction(t, fault), "create")

\* A performTransaction(txn) that counts the document it writes.
updateBodyCounting(c, callBack, fault) ==
  LET k == getCounterUpdater(c, TRUE, TRUE, fault)
      m == IF k.err # "" THEN k ELSE [k EXCEPT !.inst.updatedAt = Now]
      w == Set(m, "live", m.inst.docId, m.inst, fault)
      u == Invoke(w, w.counterUpdater)
  IN CallBack(u, callBack, fault)

\* update's performTransaction(txn)
updateBody(c, callBack, fault) ==
  LET m == IF c.err # "" THEN c ELSE [c EXCEPT !.inst.updatedAt = Now]
      w == Set(m, "live", m.inst.docId, m.inst, fault)
  IN CallBack(w, callBack, fault)

\* An update that checks this.docId after beforeUpdate has run.
updateHookFirst(i, transaction, callBack, fault) ==
  IF callBack = "invalid" THEN Throw(Start(i), "VALIDATION_INVALID_CALLBACK")
  ELSE LET c0 == External([Start(i) EXCEPT !.ref = i.docId], "beforeUpdate", fault)
           c1 == IF c0.err = "" /\ i.docId = NoId
                   THEN Throw(c0, "VALIDATION_MISSING_DOC_ID")
                   ELSE c0
           c2 == External(c1, "beforeEdit", fault)
           c3 == External(c2, "validate", fault)
           t == updateBody(c3, callBack, fault)
       IN Catch(IF transaction THEN t ELSE runTransaction(t, fault), "update")

update(i, transaction, callBack, fault) ==
  IF callBack = "invalid" THEN Throw(Start(i), "VALIDATION_INVALID_CALLBACK")
  ELSE IF i.docId = NoId THEN Throw(Start(i), "VALIDATION_MISSING_DOC_ID")
  ELSE LET c1 == External([Start(i) EXCEPT !.ref = i.docId], "beforeUpdate", fault)
           c2 == External(c1, "beforeEdit", fault)
           c3 == External(c2, "validate", fault)
           t == updateBody(c3, callBack, fault)
       IN Catch(IF transaction THEN t ELSE runTransaction(t, fault), "update")

\* The hasMany loop from descriptor k on: the first descriptor whose query
\* (where(item.field, item.condition, this.docId), limit(1)) is not empty, or 0
\* (false) when every query is empty.  matches[k] is whether the target of
\* descriptor k holds a document that references this.docId.
\* A scan that looks at one descriptor only.
hasChildFromOne(k, matches) ==
  IF k > NumHasMany THEN 0
  ELSE IF matches[k] THEN k
  ELSE 0

RECURSIVE hasChildFrom(_, _)
hasChildFrom(k, matches) ==
  IF k > NumHasMany THEN 0
  ELSE IF matches[k] THEN k
  ELSE hasChildFrom(k + 1, matches)

\* A loop that queries every descriptor.
hasChildQueriesAll(k, matches) == [j \in 1..(NumHasMany - k + 1) |-> k + j - 1]

\* The queries the loop issues from descriptor k on: one getDocs per
\* descriptor, up to and including the first that matches.
RECURSIVE hasChildQueriesFrom(_, _)
hasChildQueriesFrom(k, matches) ==
  IF k > NumHasMany THEN <<>>
  ELSE IF matches[k] THEN <<k>>
  ELSE <<k>> \o hasChildQueriesFrom(k + 1, matches)

hasChildTry(c, matches, fault) ==
  IF c.inst.docId = NoId THEN Throw(c, "VALIDATION_MISSING_DOC_ID")
  ELSE IF fault = "getDocs" /\ NumHasMany > 0
    THEN Throw([c EXCEPT !.out.queries = <<1>>], "RAW")
  ELSE [c EXCEPT !.child = hasChildFrom(1, matches),
                 !.out.item = hasChildFrom(1, matches),
                 !.out.queries = hasChildQueriesFrom(1, matches)]

hasChild(c, matches, fault) ==
  IF c.err # "" THEN c ELSE Catch(hasChildTry(c, matches, fault), "hasChild")

\* A performTransaction(txn) that archives whatever the re-read returned,
\* without the existence guard.
deleteBodyUnguarded(c, matches, callBack, fault) ==
  LET docRef == c.inst.docId
      h == hasChild(c, matches, fault)
      g == IF h.err = "" /\ h.child # 0
             THEN Throw(h, "BUSINESS_CHILD_DOCUMENTS_EXIST")
             ELSE h
      k == getCounterUpdater(g, TRUE, FALSE, fault)
      r == IF class.logicalDelete THEN External(k, "get:live", fault) ELSE k
      sourceDocSnap == live[docRef]
      a == IF class.logicalDelete
             THEN Set(r, "archive", docRef, sourceDocSnap.data, fault)
             ELSE r
      d == Remove(a, "live", docRef, fault)
      u == Invoke(d, d.counterUpdater)
  IN CallBack(u, callBack, fault)

\* A performTransaction(txn) that reads the counter document after the
\* document's writes.
deleteBodyReadingLate(c, matches, callBack, fault) ==
  LET docRef == c.inst.docId
      h == hasChild(c, matches, fault)
      g == IF h.err = "" /\ h.child # 0
             THEN Throw(h, "BUSINESS_CHILD_DOCUMENTS_EXIST")
             ELSE h
      r == IF class.logicalDelete THEN External(g, "get:live", fault) ELSE g
      sourceDocSnap == live[docRef]
      n == IF r.err = "" /\ class.logicalDelete /\ ~sourceDocSnap.exists
             THEN Throw(r, "DATABASE_DOCUMENT_NOT_FOUND")
             ELSE r
      a == IF class.logicalDelete
             THEN Set(n, "archive", docRef, sourceDocSnap.data, fault)
             ELSE n
      d == Remove(a, "live", docRef, fault)
      k == getCounterUpdater(d, TRUE, FALSE, fault)
      u == Invoke(k, k.counterUpdater)
  IN CallBack(u, callBack, fault)

\* delete's performTransaction(txn)
deleteBody(c, matches, callBack, fault) ==
  LET docRef == c.inst.docId
      h == hasChild(c, matches, fault)
      g == IF h.err = "" /\ h.child # 0
             THEN Throw(h, "BUSINESS_CHILD_DOCUMENTS_EXIST")
             ELSE h
      k == getCounterUpdater(g, TRUE, FALSE, fault)
      r == IF class.logicalDelete THEN External(k, "get:live", fault) ELSE k
      sourceDocSnap == live[docRef]
      n == IF r.err = "" /\ class.logicalDelete /\ ~sourceDocSnap.exists
             THEN Throw(r, "DATABASE_DOCUMENT_NOT_FOUND")
             ELSE r
      a == IF class.logicalDelete
             THEN Set(n, "archive", docRef, sourceDocSnap.data, fault)
             ELSE n
      d == Remove(a, "live", docRef, fault)
      u == Invoke(d, d.counterUpdater)
  IN CallBack(u, callBack, fault)

delete(i, transaction, matches, callBack, fault) ==
  IF callBack = "invalid" THEN Throw(Start(i), "VALIDATION_INVALID_CALLBACK")
  ELSE IF i.docId = NoId THEN Throw(Start(i), "VALIDATION_MISSING_DOC_ID")
  ELSE LET c1 == External([Start(i) EXCEPT !.ref = i.docId], "beforeDelete", fault)
           t == deleteBody(c1, matches, callBack, fault)
       IN Catch(IF transaction THEN t ELSE runTransaction(t, fault), "delete")

\* A performTransaction(txn) that writes the live document back and keeps the
\* archive copy.
restoreBodyKeepingArchive(c, docId, fault) ==
  LET r == External(c, "get:archive", fault)
      docSnapshot == archive[docId]
      n == IF r.err = "" /\ ~docSnapshot.exists
             THEN Throw(r, "DATABASE_DOCUMENT_NOT_FOUND")
             ELSE r
      k == getCounterUpdater(n, TRUE, TRUE, fault)
      w == Set(k, "live", docId, docSnapshot.data, fault)
  IN Invoke(w, w.counterUpdater)

\* restore's performTransaction(txn)
restoreBody(c, docId, fault) ==
  LET r == External(c, "get:archive", fault)
      docSnapshot == archive[docId]
      n == IF r.err = "" /\ ~docSnapshot.exists
             THEN Throw(r, "DATABASE_DOCUMENT_NOT_FOUND")
             ELSE r
      k == getCounterUpdater(n, TRUE, TRUE, fault)
      d == Remove(k, "archive", docId, fault)
      w == Set(d, "live", docId, docSnapshot.data, fault)
  IN Invoke(w, w.counterUpdater)

restore(i, transaction, docId, fault) ==
  IF docId = NoId THEN Throw(Start(i), "VALIDATION_MISSING_DOC_ID")
  ELSE LET t == restoreBody([Start(i) EXCEPT !.ref = docId], docId, fault)
       IN Catch(IF transaction THEN t ELSE runTransaction(t, fault), "restore")


(***************************************************************************)
(* State machine.                                                          *)
(***************************************************************************)
CallBacks == {"none", "fn", "invalid"}

\* The caller's callBack and the step at which a collaborator throws ("none":
\* no step).  A fault at callBack needs a callBack; an invalid callBack is
\* rejected before any step runs, so it is paired with no fault.
Calls(faults) ==
  {x \in CallBacks \X faults :
     /\ x[2] = "callBack" => x[1] = "fn"
     /\ x[1] = "invalid" => x[2] = "none"
     /\ x[1] = "none" => x[2] \in {"none", "commit"}}

\* The payloads a call is tried with: a call that is made to fail writes
\* nothing, so its payload is not varied.
ValsOf(x) == IF x[1] # "invalid" /\ x[2] = "none" THEN Vals ELSE {1}

CreateFaults == {"none", "beforeCreate", "beforeEdit", "validate", "get:autonumbers",
                 "get:counter", "write", "callBack", "commit"}
UpdateFaults == {"none", "beforeUpdate", "beforeEdit", "validate", "write", "callBack",
                 "commit"}
DeleteFaults == {"none", "beforeDelete", "getDocs", "get:counter", "get:live", "write",
                 "callBack", "commit"}
RestoreFaults == {"none", "get:archive", "get:counter", "write", "commit"}

\* The calls each operation is tried with.
CreateCalls == Calls(CreateFaults)
UpdateCalls == Calls(UpdateFaults)
DeleteCalls == Calls(DeleteFaults)

\* new Model({docId, ...}): an instance as the application constructs it.
NewInst(d, v) == [docId |-> d, val |-> v, code |-> <<>>, updatedAt |-> Earlier]

\* The Autonumbers documents the collection can have been provisioned with.
AutonumberDocs ==
  {NoAutonumber} \cup
  UNION {{[exists |-> TRUE, status |-> s, current |-> n, length |-> l, field |-> "code"] :
            s \in BOOLEAN, n \in {0, Pow10(l) - 2, Pow10(l) - 1}} : l \in 1..MaxLength}

\* An enabled Autonumbers document that has issued no code yet.
FirstAutonumber ==
  [exists |-> TRUE, status |-> TRUE, current |-> 0, length |-> MaxLength, field |-> "code"]

NoChildren == [k \in HasMany |-> FALSE]
NoSnap == [valid |-> FALSE, id |-> NoId, doc |-> NoDoc, counter |-> NoCounter]
\* this.listener = null
NoListener == 0

\* The class ClientAdapter: static firestore = null; static auth = null, the
\* number of instances constructed and, for the record, of resets of the
\* static fields.  A handle is the Firebase app (1..NumApps) whose Firestore
\* or Auth instance it is; Constructed is the class after new ClientAdapter()
\* on the first app.
Null == 0
Unconstructed == [firestore |-> Null, auth |-> Null, instances |-> 0, resets |-> 0]
Constructed == [firestore |-> 1, auth |-> 1, instances |-> 1, resets |-> 0]

\* A transaction of one client: the operation and its arguments, the
\* instance it was called on (first), how often its body has run (attempts),
\* the body's last execution (c), the store as that execution read it (seen)
\* and where the transaction stands: "none", "ran" (the body returned, the
\* commit is pending), "committed" or "failed"; commits counts the
\* transactions the client has committed.  c and seen hold one element while
\* the commit is pending and none otherwise: once a transaction has ended
\* only its operation, its attempts and its error (err) are kept.
NoTxn == [phase |-> "none", op |-> "", docId |-> NoId, useAutonumber |-> FALSE,
          first |-> NoData, attempts |-> 0, commits |-> 0, err |-> "", c |-> <<>>,
          seen |-> <<>>]
NoTxns == [p \in 1..NumClients |-> NoTxn]

NoResult == [op |-> "", callBack |-> "none", fault |-> "none", err |-> "", docId |-> NoId,
             cb |-> FALSE, auto |-> FALSE, log |-> <<>>]

\* The store before any operation: the collection is empty and has no
\* counter document; provisioned holds the Autonumbers documents an autonumber-enabled
\* class may have been provisioned with.
InitWith(classes, provisioned) ==
  /\ live = [d \in Ids |-> NoDoc]
  /\ archive = [d \in Ids |-> NoDoc]
  /\ counter = NoCounter
  /\ class \in classes
  /\ \E a \in provisioned \cup {NoAutonumber} :
       /\ class.useAutonumber <=> a \in provisioned
       /\ autonumbers = [x \in AutonumberIds |-> IF x = ProvisionedId THEN a ELSE NoAutonumber]
  /\ children = NoChildren
  /\ inst = NewInst(NoId, 1)
  /\ result = NoResult
  /\ snap = NoSnap
  /\ listener = NoListener
  /\ docs = <<>>
  /\ listeners = <<>>
  /\ out = NoOut
  /\ txns = NoTxns
  /\ ClientAdapter = Constructed

\* An autonumber-enabled class (callers opt out per call with useAutonumber:
\* false), with or without logical delete.
Init == InitWith([useAutonumber : {TRUE}, logicalDelete : BOOLEAN], {FirstAutonumber})

\* The operation's outcome: the transaction's writes reach the store, the
\* instance keeps what the operation assigned to it.  result is the call as
\* its caller sees it: the operation, the callBack it was given, the step at
\* which a collaborator threw (fault), the error it was rejected with ("" when
\* it resolved), the document it addressed, whether callBack ran, whether
\* setAutonumber was called and what was logged; out is what a read returned.
Finish(op, c, callBack, fault) ==
  \E after \in {ApplyWrites(DB, c.writes)} :
     /\ live' = after.live
     /\ archive' = after.archive
     /\ counter' = after.counter
     /\ autonumbers' = after.autonumbers
     /\ inst' = c.inst
     /\ result' = [op |-> op, callBack |-> callBack, fault |-> fault, err |-> c.err,
                    docId |-> c.ref,
                    cb |-> c.cb, auto |-> c.auto, log |-> c.log]
     /\ out' = c.out
     /\ UNCHANGED <<class, listener, docs, listeners, txns, ClientAdapter>>

\* Each operation is called on an instance the application has prepared;
\* inst is that instance as the operation leaves it.  create never reads
\* this.docId, so it is called on instances without one; its useAutonumber
\* argument is only read when the class opts in.  No operation reads what the
\* call before it left on its instance or returned, so the calls that can
\* follow a rejected call are those that can follow the state it was made
\* in: the operations are called after calls that resolved.
Create ==
  /\ result.err = ""
  /\ counter.count < MaxCounter
  /\ \E x \in CreateCalls, docId \in Ids \cup {NoId},
        useAutonumber \in (IF class.useAutonumber THEN BOOLEAN ELSE {TRUE}) :
       \E v \in ValsOf(x), docRef \in (IF docId = NoId THEN FreshIds ELSE {docId}),
          autonumberRef \in FreshAutonumberIds :
         Finish("create",
                create(NewInst(NoId, v), FALSE, docRef, useAutonumber, x[1], autonumberRef, x[2]),
                x[1], x[2])
  /\ snap' = NoSnap
  /\ children' = NoChildren

Update ==
  /\ result.err = ""
  /\ \E x \in UpdateCalls, d \in Ids \cup {NoId} :
       \E v \in ValsOf(x) :
         Finish("update", update(NewInst(d, v), FALSE, x[1], x[2]), x[1], x[2])
  /\ snap' = NoSnap
  /\ children' = NoChildren

\* children is what the targets of the hasMany descriptors hold when delete
\* runs (for each, whether a document references this.docId): other models
\* write them, so any content is possible at each call.  Calls that are
\* rejected for another reason are tried without children.
Delete ==
  /\ result.err = ""
  /\ counter.count > -MaxCounter
  /\ \E x \in DeleteCalls, d \in Ids \cup {NoId} :
     \E matches \in (IF d = NoId \/ x[1] = "invalid" \/ x[2] # "none" THEN {NoChildren}
                     ELSE [HasMany -> BOOLEAN]) :
       LET c == delete(NewInst(d, 1), FALSE, matches, x[1], x[2])
       IN /\ Finish("delete", c, x[1], x[2])
          /\ children' = matches
          /\ snap' = IF c.err = ""
                       THEN [valid |-> TRUE, id |-> d, doc |-> live[d], counter |-> counter]
                       ELSE NoSnap

Restore ==
  /\ result.err = ""
  /\ counter.count < MaxCounter
  /\ \E docId \in Ids \cup {NoId}, fault \in RestoreFaults :
       Finish("restore", restore(NewInst(NoId, 1), FALSE, docId, fault), "none", fault)
  /\ snap' = IF result.op = "delete" THEN snap ELSE NoSnap
  /\ children' = NoChildren

Next == Create \/ Update \/ Delete \/ Restore

Spec == Init /\ [][Next]_vars

\* Creates alone, over every provisioning of the Autonumbers document.
InitAutonumber ==
  InitWith([useAutonumber : {TRUE}, logicalDelete : {FALSE}], AutonumberDocs)

SpecAutonumber == InitAutonumber /\ [][Create]_vars


(***************************************************************************)
(* Reads of one document, and the helpers called on their own.             *)
(***************************************************************************)
\* fetch({docId, transaction}): transaction.get(docRef) or getDoc(docRef),
\* then this.initialize loads the instance with the data, or resets it when
\* the document is not found.
fetch(i, docId, transaction, fault) ==
  IF docId = NoId THEN Throw(Start(i), "VALIDATION_MISSING_DOC_ID")
  ELSE LET c == [Start(i) EXCEPT !.ref = docId, !.out.transaction = transaction]
           g == External(c, "get:live", fault)
           docSnap == live[docId]
           r == IF g.err # "" THEN g
                ELSE [g EXCEPT !.inst = IF docSnap.exists THEN docSnap.data ELSE NoData,
                               !.out.found = docSnap.exists]
       IN Catch(r, "fetch")

\* A fetchDoc that loads the instance with what it read.
fetchDocHydrating(i, docId, transaction, fault) ==
  IF docId = NoId THEN Throw(Start(i), "VALIDATION_MISSING_DOC_ID")
  ELSE LET c == [Start(i) EXCEPT !.ref = docId, !.out.transaction = transaction]
           g == External(c, "get:live", fault)
           docSnap == live[docId]
           r == IF g.err # "" THEN g
                ELSE [g EXCEPT !.inst = IF docSnap.exists THEN docSnap.data ELSE NoData,
                               !.out.found = docSnap.exists,
                               !.out.data = IF docSnap.exists THEN docSnap.data ELSE NoData]
       IN Catch(r, "fetchDoc")

\* fetchDoc({docId, transaction}): the data, or null when not found; the
\* instance is left alone.
fetchDoc(i, docId, transaction, fault) ==
  IF docId = NoId THEN Throw(Start(i), "VALIDATION_MISSING_DOC_ID")
  ELSE LET c == [Start(i) EXCEPT !.ref = docId, !.out.transaction = transaction]
           g == External(c, "get:live", fault)
           docSnap == live[docId]
           r == IF g.err # "" THEN g
                ELSE [g EXCEPT !.out.found = docSnap.exists,
                               !.out.data = IF docSnap.exists THEN docSnap.data ELSE NoData]
       IN Catch(r, "fetchDoc")

ReadFaults == {"none", "get:live"}

\* fetch and fetchDoc are called on the instance the application holds: inst
\* as the operation before left it.
Fetch ==
  /\ \E docId \in Ids \cup {NoId}, transaction \in BOOLEAN, fault \in ReadFaults :
       Finish("fetch", fetch(inst, docId, transaction, fault), "none", fault)
  /\ snap' = NoSnap
  /\ children' = NoChildren

FetchDoc ==
  /\ \E docId \in Ids \cup {NoId}, transaction \in BOOLEAN, fault \in ReadFaults :
       Finish("fetchDoc", fetchDoc(inst, docId, transaction, fault), "none", fault)
  /\ snap' = NoSnap
  /\ children' = NoChildren

\* getCounterUpdater({transaction, increment}) called on its own: the deferred
\* action it returns is not invoked.
GetCounterUpdater ==
  /\ \E transaction \in BOOLEAN, increment \in BOOLEAN, fault \in {"none", "get:counter"} :
       LET c == [Start(NewInst(NoId, 1)) EXCEPT !.out.transaction = transaction]
       IN Finish("getCounterUpdater", getCounterUpdater(c, transaction, increment, fault),
                 "none", fault)
  /\ snap' = NoSnap
  /\ children' = NoChildren

\* setAutonumber({transaction}) called on its own.
SetAutonumber ==
  /\ \E transaction \in BOOLEAN, docRef \in FreshAutonumberIds,
        fault \in {"none", "get:autonumbers"} :
       LET c == [Start(NewInst(NoId, 1)) EXCEPT !.out.transaction = transaction]
       IN Finish("setAutonumber", setAutonumber(c, transaction, docRef, fault),
                 "none", fault)
  /\ snap' = NoSnap
  /\ children' = NoChildren

\* The operations that require a docId or a transaction.
NextCalls ==
  Update \/ Delete \/ Restore \/ Fetch \/ FetchDoc \/ GetCounterUpdater \/ SetAutonumber

SpecCalls == Init /\ [][NextCalls]_vars


(***************************************************************************)
(* Query builders.                                                         *)
(***************************************************************************)
\* A query constraint as where(), orderBy() and limit() build it.  A field
\* path and a token are sequences of characters.
QC(q, field, op, value, direction, n) ==
  [q |-> q, field |-> field, op |-> op, value |-> value, direction |-> direction, n |-> n]

where(field, op, value) == QC("where", field, op, value, "", 0)
orderBy(field, direction) == QC("orderBy", field, "", "", direction, 0)
limit(n) == QC("limit", <<>>, "", "", "", n)

\* args[1] of a tuple that has no third element.
Undefined == "undefined"

\* The values x of a direction for which (x || "asc") is "asc": undefined and
\* the empty string.
Falsy == {Undefined, ""}

\* One element of a constraints array as the caller wrote it: when it is
\* iterable, [type, ...args] with args read by position: where's field, op
\* and value, orderBy's field and direction (Undefined: left out), limit's
\* number (isNumber: typeof args[0] === "number").
Constraint(iterable, type, field, op, value, direction, isNumber, n) ==
  [iterable |-> iterable, type |-> type, field |-> field, op |-> op, value |-> value,
   direction |-> direction, isNumber |-> isNumber, n |-> n]

\* The callback of constraints.forEach, on context c with c.queries the
\* result so far.
createQuery(c, constraint) ==
  IF ~constraint.iterable THEN Throw(c, "RAW")
  ELSE CASE constraint.type = "where" ->
              [c EXCEPT !.queries =
                 Append(@, where(constraint.field, constraint.op, constraint.value))]
         [] constraint.type = "orderBy" ->
              LET direction == IF constraint.direction \in Falsy THEN "asc"
                               ELSE constraint.direction
              IN IF direction \notin {"asc", "desc"}
                   THEN Throw(c, "VALIDATION_INVALID_ORDERBY_DIRECTION")
                   ELSE [c EXCEPT !.queries = Append(@, orderBy(constraint.field, direction))]
         [] constraint.type = "limit" ->
              IF ~constraint.isNumber \/ constraint.n <= 0
                THEN Throw(c, "VALIDATION_INVALID_LIMIT")
                ELSE [c EXCEPT !.queries = Append(@, limit(constraint.n))]
         [] OTHER -> Throw(c, "VALIDATION_INVALID_QUERY_TYPE")

RECURSIVE forEachConstraint(_, _)
forEachConstraint(c, items) ==
  IF c.err # "" \/ items = <<>> THEN c
  ELSE forEachConstraint(createQuery(c, Head(items)), Tail(items))

\* createQueries(constraints), its result appended to c.queries
\* (queryConstraints.push(...)).  constraints is what the caller passed:
\* an array (isArray) of items or something else, which has no forEach.
createQueries(c, constraints) ==
  IF c.err # "" THEN c
  ELSE IF ~constraints.isArray THEN Throw(c, "RAW")
  ELSE LET r == forEachConstraint([c EXCEPT !.queries = <<>>], constraints.items)
       IN IF r.err # "" THEN [r EXCEPT !.queries = c.queries]
          ELSE [r EXCEPT !.queries = c.queries \o @]

\* [...new Set(seq)]: the first occurrence of each element, in order.
Unique(seq) ==
  LET firsts == SelectSeq([k \in 1..Len(seq) |-> k],
                          LAMBDA k : \A j \in 1..(k - 1) : seq[j] # seq[k])
  IN [n \in 1..Len(firsts) |-> seq[firsts[n]]]

\* Characters of a search string: letters, a blank, one of the characters
\* the search strips ("*"), and the two halves of a surrogate pair.
Whitespace == {" "}
Stripped == {"hi", "lo", "~", "*", "[", "]"} \cup Whitespace

\* target.substring(i, j) with 0-based i and j clamped to the length.
substring(target, i, j) ==
  SubSeq(target, i + 1, IF j > Len(target) THEN Len(target) ELSE j)

\* A token builder that keeps repeated tokens.
createTokenMapQueriesRepeating(c, constraints) ==
  IF c.err # "" THEN c
  ELSE IF constraints = <<>> \/ \A k \in 1..Len(constraints) : constraints[k] \in Whitespace
    THEN Throw(c, "VALIDATION_INVALID_CONSTRAINTS")
  ELSE LET target == SelectSeq(constraints, LAMBDA ch : ch \notin Stripped)
           one == [i \in 1..Len(target) |-> substring(target, i - 1, i)]
           two == [i \in 1..Len(target) |-> substring(target, i - 1, i + 1)]
           tokens == one \o SubSeq(two, 1, Len(two) - 1)
       IN [c EXCEPT !.queries =
             @ \o [k \in 1..Len(tokens) |-> where(<<"tokenMap", ".">> \o tokens[k], "==", "true")]]

\* createTokenMapQueries(constraints), its result appended to c.queries.
createTokenMapQueries(c, constraints) ==
  IF c.err # "" THEN c
  ELSE IF constraints = <<>> \/ \A k \in 1..Len(constraints) : constraints[k] \in Whitespace
    THEN Throw(c, "VALIDATION_INVALID_CONSTRAINTS")
  ELSE LET target == SelectSeq(constraints, LAMBDA ch : ch \notin Stripped)
           one == [i \in 1..Len(target) |-> substring(target, i - 1, i)]
           two == [i \in 1..Len(target) |-> substring(target, i - 1, i + 1)]
           tokens == Unique(one \o SubSeq(two, 1, Len(two) - 1))
       IN [c EXCEPT !.queries =
             @ \o [k \in 1..Len(tokens) |-> where(<<"tokenMap", ".">> \o tokens[k], "==", "true")]]

\* The constraints and options arguments of fetchDocs and subscribeDocs:
\* constraints is a string (chars), an array (items) or something else.
\* queryConstraints is built before the try block.
queryConstraints(c, constraints, options) ==
  IF constraints.type = "string"
    THEN createQueries(createTokenMapQueries(c, constraints.chars), options)
  ELSE IF constraints.type = "array"
    THEN createQueries(c, [isArray |-> TRUE, items |-> constraints.items])
  ELSE Throw(c, "VALIDATION_INVALID_CONSTRAINTS")


(***************************************************************************)
(* Real-time Subscription Manager.                                         *)
(***************************************************************************)
\* The instance's side (this.listener, this.docs) and the store's side
\* (listeners: every listener registered with onSnapshot, by handle).
Sub == [listener |-> listener, docs |-> docs, listeners |-> listeners]

\* A listener at the store: the document it watches (NoId for a query),
\* whether it is still registered, how often its handle was called, whether
\* subscribeDocs was given a callback, and the changes delivered to it.  The
\* store keeps no changes for a cancelled listener.
Listener(kind, target, callback) ==
  [kind |-> kind, target |-> target, active |-> TRUE, cancels |-> 0,
   callback |-> callback, delivered |-> <<>>]

\* this.listener(): the unsubscribe function onSnapshot returned.
cancel(ls, h) ==
  [ls EXCEPT ![h].active = FALSE, ![h].cancels = @ + 1, ![h].delivered = <<>>]

\* An unsubscribe that calls the handle and keeps it.
unsubscribeKeepingHandle(s) ==
  LET t == IF s.listener # NoListener
             THEN [s EXCEPT !.listeners = cancel(@, s.listener)]
             ELSE s
  IN [t EXCEPT !.docs = <<>>]

\* unsubscribe()
unsubscribe(s) ==
  LET t == IF s.listener # NoListener
             THEN [s EXCEPT !.listeners = cancel(@, s.listener), !.listener = NoListener]
             ELSE s
  IN [t EXCEPT !.docs = <<>>]

\* this.listener = onSnapshot(ref, ...): a new handle.
onSnapshot(s, kind, target, callback) ==
  [s EXCEPT !.listeners = Append(@, Listener(kind, target, callback)),
            !.listener = Len(s.listeners) + 1]

\* A subscribe that registers without cancelling the listener it holds.
subscribeWithoutUnsubscribe(i, s, docId, fault) ==
  LET c == [Start(i) EXCEPT !.ref = docId, !.out.active = (s.listener # NoListener)]
  IN IF docId = NoId THEN [c |-> Throw(c, "VALIDATION_MISSING_DOC_ID"), s |-> s]
     ELSE IF fault = "onSnapshot"
       THEN [c |-> Catch(Throw(c, "RAW"), "subscribe"), s |-> s]
     ELSE [c |-> c, s |-> onSnapshot(s, "doc", docId, FALSE)]

\* subscribe({docId})
subscribe(i, s, docId, fault) ==
  LET u == unsubscribe(s)
      c == [Start(i) EXCEPT !.ref = docId, !.out.active = (s.listener # NoListener)]
  IN IF docId = NoId THEN [c |-> Throw(c, "VALIDATION_MISSING_DOC_ID"), s |-> u]
     ELSE IF fault = "onSnapshot"
       THEN [c |-> Catch(Throw(c, "RAW"), "subscribe"), s |-> u]
     ELSE [c |-> c, s |-> onSnapshot(u, "doc", docId, FALSE)]

\* A subscribeDocs that builds its query before it cancels the listener it
\* holds.
subscribeDocsValidatingFirst(i, s, constraints, options, callback, fault) ==
  LET c == [Start(i) EXCEPT !.out.active = (s.listener # NoListener)]
      q == queryConstraints(c, constraints, options)
      u == unsubscribe(s)
  IN IF q.err # "" THEN [c |-> q, s |-> s]
     ELSE IF fault = "onSnapshot"
       THEN [c |-> Catch(Throw(q, "RAW"), "subscribeDocs"), s |-> u]
     ELSE [c |-> q, s |-> onSnapshot(u, "docs", NoId, callback)]

\* subscribeDocs({constraints, options, callback})
subscribeDocs(i, s, constraints, options, callback, fault) ==
  LET u == unsubscribe(s)
      c == [Start(i) EXCEPT !.out.active = (s.listener # NoListener)]
      q == queryConstraints(c, constraints, options)
  IN IF q.err # "" THEN [c |-> q, s |-> u]
     ELSE IF fault = "onSnapshot"
       THEN [c |-> Catch(Throw(q, "RAW"), "subscribeDocs"), s |-> u]
     ELSE [c |-> q, s |-> onSnapshot(u, "docs", NoId, callback)]

\* this.docs.findIndex(({docId}) => docId === item.docId), 0-based, -1 when
\* there is none.
findIndex(arr, docId) ==
  IF \E k \in 1..Len(arr) : arr[k].docId = docId
    THEN (CHOOSE k \in 1..Len(arr) :
            /\ arr[k].docId = docId
            /\ \A j \in 1..(k - 1) : arr[j].docId # docId) - 1
    ELSE -1

\* arr.splice(start, deleteCount, ...items): a negative start counts from
\* the end.
splice(arr, start, deleteCount, items) ==
  LET len == Len(arr)
      from == IF start < 0 THEN (IF len + start < 0 THEN 0 ELSE len + start)
              ELSE IF start > len THEN len ELSE start
      count == IF deleteCount < 0 THEN 0
               ELSE IF deleteCount > len - from THEN len - from ELSE deleteCount
  IN SubSeq(arr, 1, from) \o items \o SubSeq(arr, from + count + 1, len)

\* A change handler that moves a modified item to the end of the list.
onChangeMoving(arr, change) ==
  LET item == change.item
      index == findIndex(arr, item.docId)
      a == IF change.type = "added" THEN Append(arr, item) ELSE arr
      m == IF change.type = "modified" THEN Append(splice(a, index, 1, <<>>), item) ELSE a
  IN IF change.type = "removed" THEN splice(m, index, 1, <<>>) ELSE m

\* The body of snapshot.docChanges().forEach in subscribeDocs' listener.
onChange(arr, change) ==
  LET item == change.item
      index == findIndex(arr, item.docId)
      a == IF change.type = "added" THEN Append(arr, item) ELSE arr
      m == IF change.type = "modified" THEN splice(a, index, 1, <<item>>) ELSE a
  IN IF change.type = "removed" THEN splice(m, index, 1, <<>>) ELSE m

RECURSIVE forEachChange(_, _)
forEachChange(arr, changes) ==
  IF changes = <<>> THEN arr
  ELSE forEachChange(onChange(arr, Head(changes)), Tail(changes))

\* The documents in the result of a listener's query after the changes
\* delivered to it.
RECURSIVE View(_)
View(delivered) ==
  IF delivered = <<>> THEN {}
  ELSE LET before == View(SubSeq(delivered, 1, Len(delivered) - 1))
           change == delivered[Len(delivered)]
       IN IF change.type = "removed" THEN before \ {change.item.docId}
          ELSE before \cup {change.item.docId}

SubIds == 1..NumSubIds

\* The changes a snapshot can report next: a document enters the result
\* (added, with its first value), one in it changes (modified, to another
\* value) or one leaves it (removed).
ChangesAfter(delivered) ==
  {[type |-> "added", item |-> [docId |-> d, val |-> 1]] : d \in SubIds \ View(delivered)}
  \cup {[type |-> "modified", item |-> [docId |-> d, val |-> v]] :
          d \in View(delivered), v \in Vals \ {1}}
  \cup {[type |-> "removed", item |-> [docId |-> d, val |-> 1]] : d \in View(delivered)}

\* The snapshots a listener can receive next: up to MaxChanges changes.
RECURSIVE SnapshotsAfter(_, _)
SnapshotsAfter(delivered, n) ==
  IF n = 0 THEN {<<>>}
  ELSE {<<>>} \cup
       UNION {{<<ch>> \o rest : rest \in SnapshotsAfter(Append(delivered, ch), n - 1)} :
                ch \in ChangesAfter(delivered)}

\* The constraints and options the subscription calls are tried with.
Where1 == Constraint(TRUE, "where", <<"val">>, "==", "1", Undefined, FALSE, 0)
OrderByDesc == Constraint(TRUE, "orderBy", <<"val">>, "", "", "desc", FALSE, 0)
OrderByDefault == Constraint(TRUE, "orderBy", <<"val">>, "", "", Undefined, FALSE, 0)
OrderByEmpty == Constraint(TRUE, "orderBy", <<"val">>, "", "", "", FALSE, 0)
OrderByUp == Constraint(TRUE, "orderBy", <<"val">>, "", "", "up", FALSE, 0)
Limit1 == Constraint(TRUE, "limit", <<>>, "", "", Undefined, TRUE, 1)
Limit0 == Constraint(TRUE, "limit", <<>>, "", "", Undefined, TRUE, 0)
LimitString == Constraint(TRUE, "limit", <<>>, "", "", Undefined, FALSE, 0)
UnknownType == Constraint(TRUE, "startAt", <<>>, "", "", Undefined, TRUE, 1)
NotATuple == Constraint(FALSE, "", <<>>, "", "", Undefined, TRUE, 1)

ArrayOf(items) == [type |-> "array", chars |-> <<>>, items |-> items]
StringOf(chars) == [type |-> "string", chars |-> chars, items |-> <<>>]
NotArrayNorString == [type |-> "other", chars |-> <<>>, items |-> <<>>]
Options(items) == [isArray |-> TRUE, items |-> items]
NotAnArray == [isArray |-> FALSE, items |-> <<>>]

SubscribeArgs ==
  {<<ArrayOf(<<>>), Options(<<>>)>>, <<ArrayOf(<<Where1, OrderByDesc>>), Options(<<>>)>>,
   <<ArrayOf(<<Limit0>>), Options(<<>>)>>, <<ArrayOf(<<NotATuple>>), Options(<<>>)>>,
   <<StringOf(<<"a", "b">>), Options(<<Limit1>>)>>, <<StringOf(<<"a">>), NotAnArray>>,
   <<StringOf(<<>>), Options(<<>>)>>, <<NotArrayNorString, Options(<<>>)>>}

\* A subscription call's outcome.
FinishSub(op, r, fault) ==
  /\ listener' = r.s.listener
  /\ docs' = r.s.docs
  /\ listeners' = r.s.listeners
  /\ result' = [op |-> op, callBack |-> "none", fault |-> fault, err |-> r.c.err,
                docId |-> r.c.ref, cb |-> r.c.cb, auto |-> r.c.auto, log |-> r.c.log]
  /\ out' = r.c.out
  /\ UNCHANGED <<live, archive, counter, autonumbers, children, inst, class, snap, txns,
                 ClientAdapter>>

Unsubscribe ==
  LET c == [Start(inst) EXCEPT !.out.active = (listener # NoListener)]
  IN FinishSub("unsubscribe", [c |-> c, s |-> unsubscribe(Sub)], "none")

Subscribe ==
  /\ Len(listeners) < MaxListeners
  /\ \E docId \in Ids \cup {NoId}, fault \in {"none", "onSnapshot"} :
       FinishSub("subscribe", subscribe(inst, Sub, docId, fault), fault)

SubscribeDocs ==
  /\ Len(listeners) < MaxListeners
  /\ \E a \in SubscribeArgs, callback \in BOOLEAN, fault \in {"none", "onSnapshot"} :
       FinishSub("subscribeDocs", subscribeDocs(inst, Sub, a[1], a[2], callback, fault), fault)

\* The store delivers a snapshot to a registered listener: a document
\* listener loads the instance with the document's data (reset when the
\* document does not exist), a query listener applies the changes to
\* this.docs and hands each to the callback.
Notify ==
  \E h \in 1..Len(listeners) :
    /\ listeners[h].active
    /\ \/ /\ listeners[h].kind = "doc"
          /\ \E data \in {NoData} \cup {NewInst(listeners[h].target, v) : v \in Vals} :
               inst' = data
          /\ result' = [NoResult EXCEPT !.op = "onSnapshot", !.docId = listeners[h].target]
          /\ UNCHANGED <<docs, listeners>>
       \/ /\ listeners[h].kind = "docs"
          /\ \E changes \in SnapshotsAfter(listeners[h].delivered, MaxChanges) \ {<<>>} :
               /\ Len(listeners[h].delivered) + Len(changes) <= MaxDelivered
               /\ docs' = forEachChange(docs, changes)
               /\ listeners' = [listeners EXCEPT ![h].delivered = @ \o changes]
          /\ result' = [NoResult EXCEPT !.op = "onSnapshot", !.cb = listeners[h].callback]
          /\ UNCHANGED inst
    /\ out' = NoOut
    /\ UNCHANGED <<live, archive, counter, autonumbers, children, class, snap, listener,
                   txns, ClientAdapter>>

NextSubscribe == Unsubscribe \/ Subscribe \/ SubscribeDocs \/ Notify

\* The listener of subscribeDocs run on a snapshot whose callback calls
\* this.unsubscribe() when it is handed the k-th change: forEach goes on
\* with the changes that remain.
onSnapshotUnsubscribing(s, changes, k) ==
  LET before == forEachChange(s.docs, SubSeq(changes, 1, k))
      u == unsubscribe([s EXCEPT !.docs = before])
  IN [u EXCEPT !.docs = forEachChange(@, SubSeq(changes, k + 1, Len(changes)))]

\* The store delivers a snapshot to the query listener the instance holds,
\* and the callback unsubscribes while the snapshot is processed.
NotifyUnsubscribing ==
  /\ listener # NoListener
  /\ listeners[listener].active /\ listeners[listener].kind = "docs"
  /\ listeners[listener].callback
  /\ \E room \in {MaxDelivered - Len(listeners[listener].delivered)} :
     \E changes \in SnapshotsAfter(listeners[listener].delivered,
                                   IF room < MaxChanges + 1 THEN room ELSE MaxChanges + 1)
                       \ {<<>>} :
       /\ \E k \in 1..Len(changes) :
            LET n == Len(changes)
                s == onSnapshotUnsubscribing(Sub, changes, k)
                b == onSnapshotUnsubscribing(Sub, SubSeq(changes, 1, n - 1), k)
            IN /\ n - k <= MaxChanges
               /\ listener' = s.listener
               /\ docs' = s.docs
               /\ listeners' = s.listeners
               /\ out' = IF k = n THEN NoOut
                         ELSE [NoOut EXCEPT !.item = n - k, !.list = b.docs,
                                            !.change = <<changes[n]>>]
  /\ result' = [NoResult EXCEPT !.op = "onSnapshot", !.cb = TRUE]
  /\ UNCHANGED <<live, archive, counter, autonumbers, children, inst, class, snap, txns,
                 ClientAdapter>>


InitSubscribe ==
  InitWith([useAutonumber : {TRUE}, logicalDelete : {FALSE}], {FirstAutonumber})

SpecSubscribe == InitSubscribe /\ [][NextSubscribe]_vars

NextCallback == NextSubscribe \/ NotifyUnsubscribing

SpecCallback == InitSubscribe /\ [][NextCallback]_vars


(***************************************************************************)
(* Query reads.                                                            *)
(***************************************************************************)
\* A value of the val field as a where clause names it.
Literal(n) == <<"0", "1", "2", "3", "4", "5", "6", "7", "8", "9">>[n + 1]

\* Whether a document is in the result of a query with these constraints:
\* the documents hold docId, val and code, and no tokenMap.
Satisfies(data, queries) ==
  \A k \in 1..Len(queries) :
    queries[k].q = "where"
      => /\ queries[k].field = <<"val">>
         /\ queries[k].op = "=="
         /\ queries[k].value = Literal(data.val)

\* The documents of S in the order of the query: by val in the direction of
\* the first orderBy when there is one, by id otherwise and among equals.
RECURSIVE Ordered(_, _)
Ordered(S, direction) ==
  IF S = {} THEN <<>>
  ELSE LET Before(a, b) ==
             \/ direction = "asc" /\ a.val < b.val
             \/ direction = "desc" /\ a.val > b.val
             \/ (direction = "" \/ a.val = b.val) /\ a.docId < b.docId
           first == CHOOSE a \in S : \A b \in S \ {a} : Before(a, b)
       IN <<first>> \o Ordered(S \ {first}, direction)

\* getDocs(query(colRef, ...queryConstraints)) on the live collection.
getDocs(queries) ==
  LET orders == SelectSeq(queries, LAMBDA q : q.q = "orderBy")
      limits == SelectSeq(queries, LAMBDA q : q.q = "limit")
      found == {live[d].data : d \in {x \in Ids : live[x].exists /\ Satisfies(live[x].data, queries)}}
      all == Ordered(found, IF orders = <<>> THEN "" ELSE orders[1].direction)
  IN IF limits = <<>> \/ limits[Len(limits)].n >= Len(all) THEN all
     ELSE SubSeq(all, 1, limits[Len(limits)].n)

\* fetchDocs({constraints, options, transaction}): the constraints are built
\* before the try block; the query is read with getDocs whether or not a
\* transaction is given.
fetchDocs(i, constraints, options, transaction, fault) ==
  LET c == [Start(i) EXCEPT !.out.transaction = transaction]
      q == queryConstraints(c, constraints, options)
  IN IF q.err # "" THEN q
     ELSE LET r == [q EXCEPT !.out.queries = <<q.queries>>]
          IN IF fault = "getDocs" THEN Catch(Throw(r, "RAW"), "fetchDocs")
             ELSE [r EXCEPT !.out.list = getDocs(q.queries)]

\* The size of an id chunk: a where-in clause takes at most 30 values.
ChunkSize == 30

\* a.slice(i, j) with 0-based i and j clamped to the length.
slice(a, i, j) == SubSeq(a, i + 1, IF j > Len(a) THEN Len(a) ELSE j)

\* uniqueIds.flatMap((_, i, a) => i % 30 ? [] : [a.slice(i, i + 30)]): the
\* 0-based indices i that contribute a chunk, each replaced by its chunk.
chunked(a) ==
  LET starts == SelectSeq([k \in 1..Len(a) |-> k - 1], LAMBDA i : i % ChunkSize = 0)
  IN [n \in 1..Len(starts) |-> slice(a, starts[n], starts[n] + ChunkSize)]

\* getDocs(query(colRef, where("docId", "in", chunkedId)))
getDocsIn(chunkedId) ==
  Ordered({live[d].data : d \in {x \in Ids : live[x].exists
                                    /\ \E k \in 1..Len(chunkedId) : chunkedId[k] = x}}, "")

RECURSIVE flatten(_)
flatten(lists) == IF lists = <<>> THEN <<>> ELSE Head(lists) \o flatten(Tail(lists))

\* A fetchDocsByIds whose chunks overlap by one id.
fetchDocsByIdsOverlapping(i, ids, transaction, fault) ==
  LET c == [Start(i) EXCEPT !.out.transaction = transaction, !.out.ids = ids]
  IN IF ~ids.isArray \/ ids.items = <<>> THEN c
     ELSE LET uniqueIds == Unique(ids.items)
              exact == chunked(uniqueIds)
              chunkedIds == [k \in 1..Len(exact) |->
                               IF k = 1 THEN exact[k]
                               ELSE <<exact[k - 1][Len(exact[k - 1])]>> \o exact[k]]
              r == [c EXCEPT !.out.queries = chunkedIds]
          IN IF fault = "getDocs" THEN Catch(Throw(r, "RAW"), "fetchDocsByIds")
             ELSE [r EXCEPT !.out.list =
                     flatten([k \in 1..Len(chunkedIds) |-> getDocsIn(chunkedIds[k])])]

\* fetchDocsByIds({ids, transaction}): ids is an array (isArray) of items or
\* something else.
fetchDocsByIds(i, ids, transaction, fault) ==
  LET c == [Start(i) EXCEPT !.out.transaction = transaction, !.out.ids = ids]
  IN IF ~ids.isArray \/ ids.items = <<>> THEN c
     ELSE LET uniqueIds == Unique(ids.items)
              chunkedIds == chunked(uniqueIds)
              r == [c EXCEPT !.out.queries = chunkedIds]
          IN IF fault = "getDocs" THEN Catch(Throw(r, "RAW"), "fetchDocsByIds")
             ELSE [r EXCEPT !.out.list =
                     flatten([k \in 1..Len(chunkedIds) |-> getDocsIn(chunkedIds[k])])]

\* The arguments fetchDocs is tried with.
FetchArgs ==
  SubscribeArgs \cup
  {<<ArrayOf(<<OrderByDefault, Limit1>>), Options(<<>>)>>,
   <<ArrayOf(<<OrderByUp>>), Options(<<>>)>>,
   <<ArrayOf(<<LimitString>>), Options(<<>>)>>,
   <<ArrayOf(<<UnknownType>>), Options(<<>>)>>,
   <<StringOf(<<"a", " ", "*">>), Options(<<NotATuple>>)>>,
   <<StringOf(<<" ">>), Options(<<>>)>>}

\* The ids fetchDocsByIds is tried with: n distinct ids, each once or each
\* twice, or a value that is not an array.
IdsArgs ==
  {[isArray |-> FALSE, items |-> <<>>]}
  \cup {[isArray |-> TRUE, items |-> [k \in 1..n |-> k]] : n \in 0..MaxIds}
  \cup {[isArray |-> TRUE, items |-> [k \in 1..(2 * n) |-> ((k - 1) % n) + 1]] : n \in 1..MaxIds}

QueryFaults == {"none", "getDocs"}

FetchDocs ==
  /\ \E a \in FetchArgs, transaction \in BOOLEAN, fault \in QueryFaults :
       Finish("fetchDocs", fetchDocs(NewInst(NoId, 1), a[1], a[2], transaction, fault),
              "none", fault)
  /\ snap' = NoSnap
  /\ children' = NoChildren

\* fetchDocsByIds is called once, on the ids drawn initially (out.ids).
FetchDocsByIds ==
  /\ result.op = ""
  /\ \E transaction \in BOOLEAN, fault \in QueryFaults :
       Finish("fetchDocsByIds", fetchDocsByIds(NewInst(NoId, 1), out.ids, transaction, fault),
              "none", fault)
  /\ snap' = NoSnap
  /\ children' = NoChildren

\* hasChild({transaction}) called on its own, on an instance with or without
\* docId; children is what the targets of the descriptors hold.
HasChild ==
  /\ \E d \in Ids \cup {NoId}, matches \in [HasMany -> BOOLEAN], transaction \in BOOLEAN,
        fault \in QueryFaults :
       LET c == [Start(NewInst(d, 1)) EXCEPT !.ref = d, !.out.transaction = transaction]
       IN /\ Finish("hasChild", hasChild(c, matches, fault), "none", fault)
          /\ children' = matches
  /\ snap' = NoSnap

\* A collection holding any documents, counted; ids are the ids a pending
\* fetchDocsByIds call is given.
InitQueryWith(ids) ==
  /\ live \in [Ids -> {NoDoc} \cup {DocOf(NewInst(d, v)) : d \in Ids, v \in Vals}]
  /\ \A d \in Ids : live[d].exists => live[d].data.docId = d
  /\ archive = [d \in Ids |-> NoDoc]
  /\ counter = [exists |-> TRUE, count |-> Cardinality({d \in Ids : live[d].exists})]
  /\ class = [useAutonumber |-> TRUE, logicalDelete |-> FALSE]
  /\ autonumbers = [x \in AutonumberIds |->
                      IF x = ProvisionedId THEN FirstAutonumber ELSE NoAutonumber]
  /\ children = NoChildren
  /\ inst = NewInst(NoId, 1)
  /\ result = NoResult
  /\ snap = NoSnap
  /\ listener = NoListener
  /\ docs = <<>>
  /\ listeners = <<>>
  /\ out \in {[NoOut EXCEPT !.ids = a] : a \in ids}
  /\ txns = NoTxns
  /\ ClientAdapter = Constructed

InitQuery == InitQueryWith({NoOut.ids})

NextQuery == FetchDocs \/ HasChild

SpecQuery == InitQuery /\ [][NextQuery]_vars

InitByIds == InitQueryWith(IdsArgs)

SpecByIds == InitByIds /\ [][FetchDocsByIds]_vars

\* Reads of one document from a collection holding any documents.
NextReads == Fetch \/ FetchDoc

SpecReads == InitQuery /\ [][NextReads]_vars


(***************************************************************************)
(* The query builders called on their own.                                 *)
(***************************************************************************)
\* The tuples createQueries is tried with, and the characters of the search
\* strings createTokenMapQueries is tried with.
Tuples == {Where1, OrderByDesc, OrderByDefault, OrderByEmpty, OrderByUp, Limit1, Limit0,
           LimitString, UnknownType}
Chars == {"A", "B", "C", " ", "*", "hi"}

SeqsUpTo(S, n) == UNION {[1..k -> S] : k \in 0..n}

BuilderArgs ==
  {ArrayOf(items) : items \in SeqsUpTo(Tuples, MaxConstraints)}
  \cup {StringOf(chars) : chars \in SeqsUpTo(Chars, MaxChars)}

\* createQueries(constraints) on the array drawn initially (out.constraints);
\* out.built is the array it returned.
CreateQueries ==
  /\ result.op = ""
  /\ out.constraints.type = "array"
  /\ LET c == [Start(NewInst(NoId, 1)) EXCEPT !.out.constraints = out.constraints]
         r == createQueries(c, Options(out.constraints.items))
     IN Finish("createQueries", [r EXCEPT !.out.built = r.queries], "none", "none")
  /\ snap' = NoSnap
  /\ children' = NoChildren

\* createTokenMapQueries(constraints) on the string drawn initially.
CreateTokenMapQueries ==
  /\ result.op = ""
  /\ out.constraints.type = "string"
  /\ LET c == [Start(NewInst(NoId, 1)) EXCEPT !.out.constraints = out.constraints]
         r == createTokenMapQueries(c, out.constraints.chars)
     IN Finish("createTokenMapQueries", [r EXCEPT !.out.built = r.queries], "none", "none")
  /\ snap' = NoSnap
  /\ children' = NoChildren

InitBuilders ==
  /\ live = [d \in Ids |-> NoDoc]
  /\ archive = [d \in Ids |-> NoDoc]
  /\ counter = NoCounter
  /\ class = [useAutonumber |-> TRUE, logicalDelete |-> FALSE]
  /\ autonumbers = [x \in AutonumberIds |->
                      IF x = ProvisionedId THEN FirstAutonumber ELSE NoAutonumber]
  /\ children = NoChildren
  /\ inst = NewInst(NoId, 1)
  /\ result = NoResult
  /\ snap = NoSnap
  /\ listener = NoListener
  /\ docs = <<>>
  /\ listeners = <<>>
  /\ out \in {[NoOut EXCEPT !.constraints = a] : a \in BuilderArgs}
  /\ txns = NoTxns
  /\ ClientAdapter = Constructed

NextBuilders == CreateQueries \/ CreateTokenMapQueries

SpecBuilders == InitBuilders /\ [][NextBuilders]_vars


(***************************************************************************)
(* The class-level handles.                                                *)
(***************************************************************************)
\* A constructor that creates the instance and leaves the static fields as
\* they are.
constructorKeepingStatics(k, app, fault) ==
  IF fault = "getFirestore" \/ fault = "getAuth" THEN [k |-> k, err |-> "RAW"]
  ELSE [k |-> [k EXCEPT !.instances = @ + 1], err |-> ""]

\* new ClientAdapter(): getFirestore() and getAuth() return the instances of
\* the default app, or throw when there is none; the constructor catches
\* nothing.  k is the class before, the result the class after and the error
\* thrown.
constructor(k, app, fault) ==
  IF fault = "getFirestore" THEN [k |-> k, err |-> "RAW"]
  ELSE IF fault = "getAuth" THEN [k |-> [k EXCEPT !.firestore = app], err |-> "RAW"]
  ELSE [k |-> [k EXCEPT !.firestore = app, !.auth = app, !.instances = @ + 1], err |-> ""]

\* get firestore()
firestore(c, k) ==
  IF k.firestore = Null THEN Throw(c, "SYSTEM_FIRESTORE_NOT_INITIALIZED")
  ELSE [c EXCEPT !.out.handle = k.firestore]

\* A call on the class or on one of its instances: the store and the model
\* instance are not involved.
FinishAdapter(op, c, fault) ==
  /\ result' = [NoResult EXCEPT !.op = op, !.fault = fault, !.err = c.err]
  /\ out' = c.out
  /\ UNCHANGED <<live, archive, counter, autonumbers, children, inst, class, snap, listener,
                 docs, listeners, txns>>

Construct ==
  /\ ClientAdapter.instances < MaxAdapters
  /\ \E app \in 1..NumApps, fault \in {"none", "getFirestore", "getAuth"} :
       LET r == constructor(ClientAdapter, app, fault)
       IN /\ ClientAdapter' = r.k
          /\ FinishAdapter("constructor", Throw(Start(inst), r.err), fault)

\* ClientAdapter.firestore = null; ClientAdapter.auth = null, as a caller
\* outside the class assigns them.
Reset ==
  /\ ClientAdapter.resets < MaxResets
  /\ ClientAdapter' = [ClientAdapter EXCEPT !.firestore = Null, !.auth = Null,
                                            !.resets = @ + 1]
  /\ FinishAdapter("reset", Start(inst), "none")

\* adapter.firestore, read on an instance.
GetFirestore ==
  /\ ClientAdapter.instances > 0
  /\ FinishAdapter("firestore", firestore(Start(inst), ClientAdapter), "none")
  /\ UNCHANGED ClientAdapter

NextAdapter == Construct \/ Reset \/ GetFirestore

\* The class as the module defines it, before any instance is constructed.
InitAdapter ==
  /\ live = [d \in Ids |-> NoDoc]
  /\ archive = [d \in Ids |-> NoDoc]
  /\ counter = NoCounter
  /\ class = [useAutonumber |-> TRUE, logicalDelete |-> FALSE]
  /\ autonumbers = [x \in AutonumberIds |->
                      IF x = ProvisionedId THEN FirstAutonumber ELSE NoAutonumber]
  /\ children = NoChildren
  /\ inst = NewInst(NoId, 1)
  /\ result = NoResult
  /\ snap = NoSnap
  /\ listener = NoListener
  /\ docs = <<>>
  /\ listeners = <<>>
  /\ out = NoOut
  /\ txns = NoTxns
  /\ ClientAdapter = Unconstructed

SpecAdapter == InitAdapter /\ [][NextAdapter]_vars


(***************************************************************************)
(* Operations that join the caller's transaction.                          *)
(***************************************************************************)
\* The caller's runTransaction(firestore, async (txn) => { ... }) around an
\* operation given {transaction: txn}: c is the operation as it returned to
\* the caller's body, its writes buffered in txn.  A body that lets the
\* operation's error escape rejects the transaction; a body that catches it
\* (caught) returns, and the transaction commits what is buffered.
callerTransaction(c, caught) ==
  LET body == IF c.err # "" /\ caught THEN [c EXCEPT !.err = ""] ELSE c
      t == runTransaction(body, "none")
  IN [t EXCEPT !.err = c.err, !.out.transaction = TRUE, !.out.caught = (c.err # "" /\ caught)]

\* The steps at which a collaborator is made to throw in a joined operation.
JoinedFaults == {"none", "write", "callBack"}
JoinedCalls == Calls(JoinedFaults)

JoinedCreate ==
  /\ counter.count < MaxCounter
  /\ \E x \in JoinedCalls, docId \in Ids, caught \in BOOLEAN :
       \E autonumberRef \in FreshAutonumberIds :
         Finish("create",
                callerTransaction(create(NewInst(NoId, 1), TRUE, docId, FALSE, x[1],
                                         autonumberRef, x[2]), caught),
                x[1], x[2])
  /\ snap' = NoSnap
  /\ children' = NoChildren

JoinedUpdate ==
  /\ \E x \in JoinedCalls, d \in Ids \cup {NoId}, caught \in BOOLEAN :
       Finish("update", callerTransaction(update(NewInst(d, 1), TRUE, x[1], x[2]), caught),
              x[1], x[2])
  /\ snap' = NoSnap
  /\ children' = NoChildren

JoinedDelete ==
  /\ counter.count > -MaxCounter
  /\ \E x \in JoinedCalls, d \in Ids \cup {NoId}, caught \in BOOLEAN :
       Finish("delete",
              callerTransaction(delete(NewInst(d, 1), TRUE, NoChildren, x[1], x[2]), caught),
              x[1], x[2])
  /\ snap' = NoSnap
  /\ children' = NoChildren

JoinedRestore ==
  /\ counter.count < MaxCounter
  /\ \E docId \in Ids \cup {NoId}, fault \in JoinedFaults \ {"callBack"}, caught \in BOOLEAN :
       Finish("restore",
              callerTransaction(restore(NewInst(NoId, 1), TRUE, docId, fault), caught),
              "none", fault)
  /\ snap' = NoSnap
  /\ children' = NoChildren

NextJoined == JoinedCreate \/ JoinedUpdate \/ JoinedDelete \/ JoinedRestore

\* A class with logical delete.
InitJoined ==
  InitWith([useAutonumber : {TRUE}, logicalDelete : {TRUE}], {FirstAutonumber})

SpecJoined == InitJoined /\ [][NextJoined]_vars

\* A second operation run on the handle a first operation has used: its
\* steps, writes and log follow the first operation's, and it does not run
\* when the first threw.
sharing(first, second) ==
  IF first.err # "" THEN first
  ELSE [second EXCEPT !.writes = first.writes \o @,
                      !.out.events = first.out.events \o @,
                      !.log = first.log \o @]

\* The second operation run from the first operation's callBack: the first
\* returns its result after the callBack has returned.
sharingFromCallBack(first, second) ==
  LET n == Len(first.out.events)
      returns == n > 0 /\ first.out.events[n] = "return"
      body == IF returns THEN [first EXCEPT !.out.events = SubSeq(@, 1, n - 1)] ELSE first
      both == sharing(body, second)
  IN IF first.err = "" /\ second.err = "" /\ returns THEN Did(both, "return") ELSE both

\* The first transactional read of an operation.
FirstRead(op) == IF op = "restore" THEN "get:archive" ELSE "get:counter"

\* The store's answer to a transactional read issued after a write of the
\* same transaction: it serves the read from the store or rejects it.
LateRead(first, op, rejects) ==
  IF rejects /\ first.err = "" /\ first.writes # <<>> THEN FirstRead(op) ELSE "none"

\* create, delete or restore given {transaction: txn}.
operation(op, d, v, autonumberRef, fault) ==
  CASE op = "create" -> create(NewInst(NoId, v), TRUE, d, FALSE, "none", autonumberRef, fault)
    [] op = "delete" -> delete(NewInst(d, v), TRUE, NoChildren, "none", fault)
    [] op = "restore" -> restore(NewInst(NoId, v), TRUE, d, fault)

FinishShared(op, inner, c) ==
  /\ Finish(op, [c EXCEPT !.out.item = 2], inner, "none")
  /\ snap' = NoSnap
  /\ children' = NoChildren

\* runTransaction(firestore, async (txn) => { await a.create({transaction:
\* txn}); await b.create({transaction: txn}) })
SharedCreates ==
  /\ counter.count < MaxCounter - 1
  /\ \E d1 \in Ids, d2 \in Ids, v1 \in Vals, v2 \in Vals, rejects \in BOOLEAN,
        autonumberRef \in FreshAutonumberIds :
       \E first \in {operation("create", d1, v1, autonumberRef, "none")} :
         \E second \in {operation("create", d2, v2, autonumberRef,
                                   LateRead(first, "create", rejects))} :
           FinishShared("create", "create", callerTransaction(sharing(first, second), FALSE))

\* An operation given a callBack and {transaction: txn}.
operationWithCallBack(op, d, v, autonumberRef) ==
  CASE op = "create" -> create(NewInst(NoId, v), TRUE, d, FALSE, "fn", autonumberRef, "none")
    [] op = "update" -> update(NewInst(d, v), TRUE, "fn", "none")
    [] op = "delete" -> delete(NewInst(d, v), TRUE, NoChildren, "fn", "none")

\* An operation whose callBack runs a create, delete or restore on the
\* transaction it is handed: x.create({callBack: (txn) => y.delete({
\* transaction: txn})}), in a transaction of its own or in the caller's.
SharedCallBack ==
  /\ counter.count < MaxCounter - 1 /\ counter.count > 1 - MaxCounter
  /\ \E op \in {"create", "update", "delete"}, inner \in {"create", "delete", "restore"},
        d1 \in Ids, d2 \in Ids, v1 \in Vals, v2 \in Vals, rejects \in BOOLEAN,
        transaction \in BOOLEAN, autonumberRef \in FreshAutonumberIds :
       \E first \in {operationWithCallBack(op, d1, v1, autonumberRef)} :
         \E second \in {operation(inner, d2, v2, autonumberRef,
                                   LateRead(first, inner, rejects))} :
           \E both \in {sharingFromCallBack(first, second)} :
             FinishShared(op, inner,
                          IF transaction THEN callerTransaction(both, FALSE)
                          ELSE Catch(runTransaction(both, "none"), op))

NextShared == SharedCreates \/ SharedCallBack

SpecShared == InitJoined /\ [][NextShared]_vars


(***************************************************************************)
(* Transactions of concurrent clients: runTransaction(firestore,           *)
(* performTransaction) runs the body, commits its writes when no document  *)
(* the body read has changed since, and runs the body again when one has.  *)
(***************************************************************************)
Clients == 1..NumClients

\* performTransaction(txn) of transaction t, run on the instance i as the
\* attempts before left it; docRef is doc(colRef, docId) or a generated
\* doc(colRef).  No collaborator throws and no callBack is given.  Among
\* concurrent clients children is what the hasMany targets hold about the
\* document Referenced, as hasChild's getDocs finds it when the body runs.
Referenced == 1

performTransaction(t, i, docRef, autonumberRef) ==
  CASE t.op = "create" ->
         createBody(Start(i), docRef, t.useAutonumber, "none", autonumberRef, "none")
    [] t.op = "delete" ->
         deleteBody([Start(i) EXCEPT !.ref = i.docId],
                    IF i.docId = Referenced THEN children ELSE NoChildren, "none", "none")
    [] t.op = "restore" ->
         restoreBody([Start(i) EXCEPT !.ref = t.docId], t.docId, "none")

\* The transaction t as it ends, committed or rejected with err.
Ended(t, phase, err) ==
  [NoTxn EXCEPT !.phase = phase, !.op = t.op, !.attempts = t.attempts, !.err = err,
                !.commits = IF phase = "committed" THEN t.commits + 1 ELSE t.commits]

\* One execution of the body: what it did and the store it read.  A body
\* that throws ends the transaction: runTransaction rejects with its error.
Execute(t, i, docRef, autonumberRef) ==
  LET c == performTransaction(t, i, docRef, autonumberRef)
      r == [t EXCEPT !.c = <<c>>, !.seen = <<DB>>, !.attempts = @ + 1, !.phase = "ran"]
  IN IF c.err = "" THEN r ELSE Ended(r, "failed", Catch(c, t.op).err)

\* Whether the last execution of t's body took this step.
Took(t, step) == \E k \in 1..Len(t.c[1].out.events) : t.c[1].out.events[k] = step

\* A conflict detection that does not watch the counter document.
ChangedButCounter(t) ==
  \/ Took(t, "get:autonumbers") /\ t.seen[1].autonumbers # autonumbers
  \/ Took(t, "get:live") /\ t.seen[1].live[t.c[1].ref] # live[t.c[1].ref]
  \/ Took(t, "get:archive") /\ t.seen[1].archive[t.c[1].ref] # archive[t.c[1].ref]

\* Read-set conflict detection: a document the body read with txn.get is no
\* longer as the body read it.
Changed(t) ==
  \/ Took(t, "get:counter") /\ t.seen[1].counter # counter
  \/ Took(t, "get:autonumbers") /\ t.seen[1].autonumbers # autonumbers
  \/ Took(t, "get:live") /\ t.seen[1].live[t.c[1].ref] # live[t.c[1].ref]
  \/ Took(t, "get:archive") /\ t.seen[1].archive[t.c[1].ref] # archive[t.c[1].ref]

\* The references the body of client p's transaction t can work on: the
\* document named by the caller, or an id doc(colRef) generates, which no
\* stored document and no other client's pending write has.
DocRefs(p, t) ==
  IF t.op = "create" /\ t.docId = NoId
    THEN FreshIds \ {txns[q].c[1].ref : q \in {x \in Clients : x # p /\ txns[x].phase = "ran"}}
    ELSE {t.docId}

\* What a step of a client's transaction leaves alone.
Others == <<children, class, snap, listener, docs, listeners, ClientAdapter>>

\* Client p calls one of ops (again: also after an earlier call of its own)
\* without a transaction: runTransaction runs the body for the first time.
Call(p, ops, again) ==
  /\ txns[p].phase \in (IF again THEN {"none", "committed", "failed"} ELSE {"none"})
  /\ txns[p].commits < MaxCommits
  /\ counter.count < MaxCounter /\ counter.count > -MaxCounter
  /\ \E op \in ops, d \in Ids \cup {NoId}, useAutonumber \in BOOLEAN :
       /\ op # "create" => d # NoId /\ ~useAutonumber
       /\ LET t == [NoTxn EXCEPT !.op = op, !.docId = d, !.useAutonumber = useAutonumber,
                                 !.commits = txns[p].commits,
                                 !.first = NewInst(IF op = "delete" THEN d ELSE NoId, 1)]
          IN \E docRef \in DocRefs(p, t), autonumberRef \in FreshAutonumberIds :
               txns' = [txns EXCEPT ![p] = Execute(t, t.first, docRef, autonumberRef)]
  /\ UNCHANGED <<live, archive, counter, autonumbers, inst, result, out, Others>>

\* The commit found a conflict: the body runs again, on the instance as the
\* attempt before left it.
Reexecute(p) ==
  /\ txns[p].phase = "ran"
  /\ Changed(txns[p])
  /\ txns[p].attempts < MaxAttempts
  /\ \E docRef \in DocRefs(p, txns[p]), autonumberRef \in FreshAutonumberIds :
       txns' = [txns EXCEPT ![p] = Execute(txns[p], txns[p].c[1].inst, docRef, autonumberRef)]
  /\ UNCHANGED <<live, archive, counter, autonumbers, inst, result, out, Others>>

\* A catch block that keeps the caller waiting when runTransaction rejects
\* after its last attempt.
GiveUpPending(p) ==
  /\ txns[p].phase = "ran"
  /\ Changed(txns[p])
  /\ txns[p].attempts >= MaxAttempts
  /\ UNCHANGED <<txns, live, archive, counter, autonumbers, inst, result, out, Others>>

\* The commit found a conflict after the last attempt: runTransaction
\* rejects and the operation's catch block reports it.
GiveUp(p) ==
  /\ txns[p].phase = "ran"
  /\ Changed(txns[p])
  /\ txns[p].attempts >= MaxAttempts
  /\ txns' = [txns EXCEPT ![p] = Ended(@, "failed", Catch(Throw(@.c[1], "RAW"), @.op).err)]
  /\ UNCHANGED <<live, archive, counter, autonumbers, inst, result, out, Others>>

\* The commit: the writes of the last execution reach the store together.
Commit(p) ==
  /\ txns[p].phase = "ran"
  /\ ~Changed(txns[p])
  /\ LET c == txns[p].c[1]
         after == ApplyWrites(DB, c.writes)
     IN /\ after.ok
        /\ live' = after.live
        /\ archive' = after.archive
        /\ counter' = after.counter
        /\ autonumbers' = after.autonumbers
        /\ inst' = c.inst
        /\ result' = [NoResult EXCEPT !.op = txns[p].op, !.docId = c.ref, !.auto = c.auto]
        /\ out' = c.out
        /\ txns' = [txns EXCEPT ![p] = Ended(@, "committed", "")]
  /\ UNCHANGED Others

\* Clients creating, deleting and restoring documents of one collection.
NextTransactions ==
  \E p \in Clients :
    Call(p, {"create", "delete", "restore"}, TRUE) \/ Reexecute(p) \/ GiveUp(p) \/ Commit(p)

SpecTransactions == Init /\ [][NextTransactions]_vars

\* The store's part in a pending transaction: it answers the commit, by
\* applying the writes, by running the body again or by rejecting.
Resolve(p) == Reexecute(p) \/ GiveUp(p) \/ Commit(p)

\* The clients whose pending create takes an id no document is stored under.
PendingCreates ==
  {p \in Clients : /\ txns[p].phase = "ran" /\ txns[p].op = "create"
                   /\ txns[p].docId \in FreshIds \cup {NoId}}

\* doc(colRef) never runs out of ids: the clients call while the ids that
\* are left suffice for the creates that are pending.
CallWithinIds(p) ==
  /\ Call(p, {"create", "restore"}, TRUE)
  /\ Cardinality(PendingCreates') <= Cardinality(FreshIds)

NextTermination ==
  \E p \in Clients : CallWithinIds(p) \/ Reexecute(p) \/ GiveUp(p) \/ Commit(p)

\* The store resolves every commit it is asked for.
SpecTermination ==
  Init /\ [][NextTermination]_vars /\ \A p \in Clients : WF_vars(Resolve(p))

\* Another process adds to the target of descriptor k a document that
\* references the document Referenced.
AddChild(k) ==
  /\ ~children[k]
  /\ children' = [children EXCEPT ![k] = TRUE]
  /\ UNCHANGED <<live, archive, counter, autonumbers, inst, result, out, txns, class, snap,
                 listener, docs, listeners, ClientAdapter>>

\* Clients creating and deleting documents while other processes add
\* documents to the hasMany targets.
NextChildren ==
  \/ \E p \in Clients :
       Call(p, {"create", "delete"}, TRUE) \/ Reexecute(p) \/ GiveUp(p) \/ Commit(p)
  \/ \E k \in HasMany : AddChild(k)

SpecChildren == Init /\ [][NextChildren]_vars

\* Clients creating documents in a collection that has no counter document.
NextCreates ==
  \E p \in Clients : Call(p, {"create"}, TRUE) \/ Reexecute(p) \/ GiveUp(p) \/ Commit(p)

SpecCreates == InitSubscribe /\ [][NextCreates]_vars


(***************************************************************************)
(* Properties.                                                             *)
(***************************************************************************)
Store == <<live, archive, counter, autonumbers>>

LiveCount == Cardinality({d \in Ids : live[d].exists})

\* The collection's field of the counter document; an absent field counts 0.
CounterValue == IF counter.exists THEN counter.count ELSE 0

\* C1: when create, update, delete or restore opens its own transaction and
\* is rejected, whatever the step that failed, the live document, the archive
\* document, the counter document and the autonumber document are exactly as
\* before the call.
C1_FailedOperationPersistsNothing ==
  [][result'.err # "" => Store' = Store]_vars

\* A create was rejected because its callBack threw, after the document and
\* the counter update had been buffered in the transaction.
C1_Witness ==
  /\ result.op = "create"
  /\ result.fault = "callBack"
  /\ result.cb
  /\ result.err = "SYSTEM_UNKNOWN_ERROR"
  /\ inst.docId # NoId

\* C2: in every committed state the collection's counter field is >= 0 and
\* equals the number of live documents of the collection.
C2_CounterEqualsLiveCount ==
  /\ CounterValue >= 0
  /\ CounterValue = LiveCount


\* The collection's Autonumbers document.
Autonumber == autonumbers[ProvisionedId]

\* The three guards of setAutonumber.
AutonumberErrors == {"BUSINESS_AUTONUMBER_DOCUMENT_NOT_FOUND", "BUSINESS_AUTONUMBER_DISABLED",
                     "BUSINESS_AUTONUMBER_MAX_REACHED"}

\* C4: when the collection's Autonumbers document exists with status true
\* and current + 1 <= 10^length - 1, an autonumbered create in which no
\* collaborator throws resolves, leaves the instance holding current + 1
\* zero-padded to length digits, and commits current + 1.
C4_CreateIssuesNextCode ==
  [][(/\ result'.op = "create" /\ result'.auto /\ result'.fault = "none"
      /\ Autonumber.exists /\ Autonumber.status
      /\ Autonumber.current + 1 <= Pow10(Autonumber.length) - 1)
     => /\ result'.err = ""
        /\ inst'.code = padStart(String(Autonumber.current + 1), Autonumber.length)
        /\ Autonumber'.current = Autonumber.current + 1]_vars

\* C5: an autonumbered create is rejected with the error of the guard it
\* violates (not found when the Autonumbers document is absent, disabled when
\* its status is falsy, max reached when current + 1 > 10^length - 1), and a
\* create rejected by a guard commits nothing.
C5_GuardErrorMatches ==
  [][(result'.op = "create" /\ result'.auto /\ result'.fault = "none")
     => /\ ~Autonumber.exists
             => result'.err = "BUSINESS_AUTONUMBER_DOCUMENT_NOT_FOUND"
        /\ Autonumber.exists /\ ~Autonumber.status
             => result'.err = "BUSINESS_AUTONUMBER_DISABLED"
        /\ (/\ Autonumber.exists /\ Autonumber.status
            /\ Autonumber.current + 1 > Pow10(Autonumber.length) - 1)
             => result'.err = "BUSINESS_AUTONUMBER_MAX_REACHED"
        /\ result'.err \in AutonumberErrors => Store' = Store]_vars

\* C7: a delete of a document that some hasMany target references is
\* rejected with BUSINESS_CHILD_DOCUMENTS_EXIST without running callBack, and
\* leaves the live document, the archive and the counter as they were
\* (delete given a valid callBack, no collaborator throwing).
C7_ChildrenBlockDelete ==
  [][(/\ result'.op = "delete" /\ inst'.docId # NoId
      /\ result'.callBack # "invalid" /\ result'.fault = "none"
      /\ \E k \in HasMany : children'[k])
     => /\ result'.err = "BUSINESS_CHILD_DOCUMENTS_EXIST"
        /\ ~result'.cb
        /\ Store' = Store]_vars

\* A delete with a callBack, of a live document that only the target of the
\* last descriptor references, was rejected.
C7_Witness ==
  /\ result.op = "delete"
  /\ result.callBack = "fn"
  /\ result.err = "BUSINESS_CHILD_DOCUMENTS_EXIST"
  /\ live[inst.docId].exists
  /\ children[NumHasMany]
  /\ \A k \in HasMany : k # NumHasMany => ~children[k]

\* C8: with logical delete, a successful delete of a live document followed
\* by a successful restore of its id leaves the live document as it was before
\* the delete, no archive document, and the counter at its value before the
\* delete.
C8_DeleteRestoreRoundTrip ==
  (/\ class.logicalDelete
   /\ result.op = "restore" /\ result.err = ""
   /\ snap.valid /\ snap.id = result.docId /\ snap.doc.exists)
  => /\ live[snap.id] = snap.doc
     /\ ~archive[snap.id].exists
     /\ counter = snap.counter

\* C9: with logical delete, a delete that commits leaves in the archive,
\* under the same docId, the data the live document had, and no live
\* document; a delete that reaches the re-read of a live document that does
\* not exist is rejected with DATABASE_DOCUMENT_NOT_FOUND and writes nothing.
C9_LogicalDeleteArchives ==
  [][(class.logicalDelete /\ result'.op = "delete")
     => /\ result'.err = ""
             => /\ live[inst'.docId].exists
                /\ archive'[inst'.docId] = live[inst'.docId]
                /\ ~live'[inst'.docId].exists
        /\ (/\ inst'.docId # NoId /\ ~live[inst'.docId].exists
            /\ result'.callBack # "invalid"
            /\ result'.fault \in {"none", "write", "callBack", "commit"}
            /\ \A k \in HasMany : ~children'[k])
             => /\ result'.err = "DATABASE_DOCUMENT_NOT_FOUND"
                /\ Store' = Store]_vars

\* A logical delete has committed: the document is archived and not live.
C9_Witness ==
  /\ class.logicalDelete
  /\ result.op = "delete" /\ result.err = ""
  /\ archive[inst.docId].exists
  /\ ~live[inst.docId].exists

\* C10: a restore of a docId that has no archive document is rejected with
\* DATABASE_DOCUMENT_NOT_FOUND and changes nothing; a restore that commits
\* leaves the archived data in the live collection and no archive document.
C10_RestoreMovesArchive ==
  [][result'.op = "restore"
     => /\ (/\ result'.docId # NoId /\ ~archive[result'.docId].exists
            /\ result'.fault # "get:archive")
             => /\ result'.err = "DATABASE_DOCUMENT_NOT_FOUND"
                /\ Store' = Store
        /\ result'.err = ""
             => /\ archive[result'.docId].exists
                /\ live'[result'.docId] = archive[result'.docId]
                /\ ~archive'[result'.docId].exists]_vars

\* A restore has committed: the document is live and no longer archived.
C10_Witness ==
  /\ result.op = "restore" /\ result.err = ""
  /\ live[result.docId].exists
  /\ ~archive[result.docId].exists

\* C11: update and delete on an instance without docId (given a valid
\* callBack), and fetch, fetchDoc and restore without a docId argument, are
\* rejected with VALIDATION_MISSING_DOC_ID, and getCounterUpdater and
\* setAutonumber without a transaction with VALIDATION_MISSING_TRANSACTION,
\* whichever hook or store access would have thrown: none is reached, nothing
\* is logged and the store is unchanged.
C11_MissingPreconditionFirst ==
  [][/\ (/\ result'.op \in {"update", "delete", "fetch", "fetchDoc", "restore"}
         /\ result'.callBack # "invalid"
         /\ result'.docId = NoId)
        => /\ result'.err = "VALIDATION_MISSING_DOC_ID"
           /\ result'.log = <<>> /\ ~result'.cb
           /\ Store' = Store
     /\ (result'.op \in {"getCounterUpdater", "setAutonumber"} /\ ~out'.transaction)
        => /\ result'.err = "VALIDATION_MISSING_TRANSACTION"
           /\ result'.log = <<>>
           /\ Store' = Store]_vars

\* An update without docId was rejected although beforeUpdate would have
\* thrown.
C11_Witness ==
  /\ result.op = "update" /\ result.docId = NoId /\ inst.docId = NoId
  /\ result.fault = "beforeUpdate"
  /\ result.err = "VALIDATION_MISSING_DOC_ID"

\* The counter document is absent over an empty collection, or holds the
\* number of live documents: what every balanced sequence keeps.
Balanced ==
  IF counter.exists THEN counter.count = LiveCount ELSE LiveCount = 0

\* C12: starting from an absent counter document, every successful create
\* of a docId that is not live adds one to the collection's counter field and
\* every successful delete of a live document takes one off; the field then
\* equals creates minus deletes, i.e. the number of live documents, and is
\* never negative (first create: 1; a delete after it: 0).
C12_BalancedCounter ==
  [][(/\ Balanced
      /\ result'.err = ""
      /\ \/ result'.op = "create" /\ ~live[result'.docId].exists
         \/ result'.op = "delete" /\ live[result'.docId].exists)
     => /\ counter'.exists
        /\ counter'.count = CounterValue + (IF result'.op = "create" THEN 1 ELSE -1)
        /\ counter'.count = LiveCount'
        /\ counter'.count >= 0]_vars

\* A delete of the only live document has taken the counter from 1 to 0.
C12_Witness ==
  /\ result.op = "delete" /\ result.err = ""
  /\ snap.valid /\ snap.doc.exists
  /\ snap.counter = [exists |-> TRUE, count |-> 1]
  /\ counter = [exists |-> TRUE, count |-> 0]
  /\ LiveCount = 0

\* The list the claim describes: the changes applied one by one, in
\* delivery order, to an empty list.
RECURSIVE Mirror(_)
Mirror(delivered) ==
  IF delivered = <<>> THEN <<>>
  ELSE LET m == Mirror(SubSeq(delivered, 1, Len(delivered) - 1))
           change == delivered[Len(delivered)]
       IN CASE change.type = "added" -> Append(m, change.item)
            [] change.type = "modified" ->
                 [k \in 1..Len(m) |->
                    IF m[k].docId = change.item.docId THEN change.item ELSE m[k]]
            [] change.type = "removed" ->
                 SelectSeq(m, LAMBDA x : x.docId # change.item.docId)

\* C13: the mirror list of a subscribeDocs listener is the changes delivered
\* to it so far applied in delivery order to an empty list (added: appended;
\* modified: replaced in place; removed: deleted), never re-sorted.
C13_MirrorFollowsChanges ==
  \A h \in 1..Len(listeners) :
    (listeners[h].active /\ listeners[h].kind = "docs")
      => docs = Mirror(listeners[h].delivered)

\* Added A, B, C, then modified B, then removed A: the mirror is
\* [B(updated), C].
C13_Witness ==
  \E h \in 1..Len(listeners) :
    /\ listeners[h].active /\ listeners[h].kind = "docs"
    /\ listeners[h].delivered =
         <<[type |-> "added", item |-> [docId |-> 1, val |-> 1]],
           [type |-> "added", item |-> [docId |-> 2, val |-> 1]],
           [type |-> "added", item |-> [docId |-> 3, val |-> 1]],
           [type |-> "modified", item |-> [docId |-> 2, val |-> 2]],
           [type |-> "removed", item |-> [docId |-> 1, val |-> 1]]>>
    /\ docs = <<[docId |-> 2, val |-> 2], [docId |-> 3, val |-> 1]>>

\* The listeners still registered at the store.
Registered == {h \in 1..Len(listeners) : listeners[h].active}

\* C14: at most one listener registered by the instance is not cancelled,
\* and this.listener is the handle of that listener.
C14_OneListener ==
  /\ Cardinality(Registered) <= 1
  /\ \A h \in Registered : listener = h

\* A subscription call made while a listener was held has replaced it.
C14_Witness ==
  /\ result.op \in {"subscribe", "subscribeDocs"} /\ result.err = ""
  /\ out.active
  /\ listener > 1
  /\ listeners[listener].active
  /\ ~listeners[listener - 1].active

\* C15: unsubscribe once leaves no registered listener, a null handle and
\* an empty mirror; a second unsubscribe changes nothing; no handle is ever
\* called twice; without a listener unsubscribe still empties the mirror and
\* touches nothing else.
C15_UnsubscribeIdempotent ==
  LET once == unsubscribe(Sub)
      idle == [Sub EXCEPT !.listener = NoListener]
  IN /\ unsubscribe(once) = once
     /\ once.listener = NoListener
     /\ once.docs = <<>>
     /\ \A h \in 1..Len(once.listeners) : ~once.listeners[h].active
     /\ \A h \in 1..Len(listeners) : listeners[h].cancels <= 1
     /\ unsubscribe(idle) = [idle EXCEPT !.docs = <<>>]
     /\ result.op = "unsubscribe"
          => /\ result.err = ""
             /\ listener = NoListener /\ docs = <<>> /\ Registered = {}

\* unsubscribe was called with no listener held, after a listener had been
\* cancelled.
C15_Witness ==
  /\ result.op = "unsubscribe" /\ ~out.active
  /\ \E h \in 1..Len(listeners) : listeners[h].cancels = 1
  /\ listener = NoListener /\ docs = <<>>

\* The set of the elements of a sequence.
Range(seq) == {seq[k] : k \in 1..Len(seq)}

\* C16: for ids with u distinct values fetchDocsByIds issues ceil(u / 30)
\* queries whose chunks are pairwise disjoint, of at most 30 ids each (all
\* but the last exactly 30) and together exactly the distinct ids; the result
\* holds no document twice; for an empty or non-array ids it issues no query
\* and returns an empty list without failing.
C16_ChunksPartitionIds ==
  result.op = "fetchDocsByIds" =>
    LET ids == out.ids
        chunks == out.queries
        u == Cardinality(Range(ids.items))
    IN IF ~ids.isArray \/ ids.items = <<>>
         THEN result.err = "" /\ chunks = <<>> /\ out.list = <<>>
         ELSE /\ Len(chunks) = (u + ChunkSize - 1) \div ChunkSize
              /\ \A k \in 1..Len(chunks) :
                   /\ Len(chunks[k]) <= ChunkSize
                   /\ k < Len(chunks) => Len(chunks[k]) = ChunkSize
                   /\ Cardinality(Range(chunks[k])) = Len(chunks[k])
                   /\ \A j \in 1..(k - 1) : Range(chunks[j]) \cap Range(chunks[k]) = {}
              /\ UNION {Range(chunks[k]) : k \in 1..Len(chunks)} = Range(ids.items)
              /\ result.fault = "none"
                   => /\ result.err = ""
                      /\ \A j, k \in 1..Len(out.list) :
                           j # k => out.list[j].docId # out.list[k].docId
                      /\ Range(out.list) =
                           {live[d].data : d \in {x \in Ids : live[x].exists}
                                                   \cap Range(ids.items)}

\* 65 distinct ids, each given twice, were read in chunks of 30, 30 and 5 and
\* both stored documents were returned.
C16_Witness ==
  /\ result.op = "fetchDocsByIds" /\ result.err = ""
  /\ Len(out.ids.items) = 2 * MaxIds
  /\ Len(out.queries) = 3
  /\ Len(out.queries[1]) = ChunkSize /\ Len(out.queries[2]) = ChunkSize
  /\ Len(out.queries[3]) = MaxIds - 2 * ChunkSize
  /\ Len(out.list) = NumIds

\* The codes of ClientAdapterError.
ClassifiedErrors ==
  {"BUSINESS_AUTONUMBER_DISABLED", "BUSINESS_AUTONUMBER_DOCUMENT_NOT_FOUND",
   "BUSINESS_AUTONUMBER_MAX_REACHED", "BUSINESS_CHILD_DOCUMENTS_EXIST",
   "DATABASE_DOCUMENT_NOT_FOUND", "SYSTEM_FIRESTORE_NOT_INITIALIZED",
   "SYSTEM_UNKNOWN_ERROR", "VALIDATION_INVALID_CALLBACK", "VALIDATION_INVALID_CONSTRAINTS",
   "VALIDATION_INVALID_LIMIT", "VALIDATION_INVALID_ORDERBY_DIRECTION",
   "VALIDATION_INVALID_QUERY_TYPE", "VALIDATION_MISSING_DOC_ID",
   "VALIDATION_MISSING_TRANSACTION"}

\* C17: every failure of an operation reaches the caller as a classified
\* ClientAdapterError; a malformed constraints shape given to fetchDocs is
\* rejected as invalid-argument, never with an untyped error.
C17_FailuresClassified ==
  result.err # "" => result.err \in ClassifiedErrors

\* C18: a ClientAdapterError raised by the operation or below it reaches
\* the caller with its code and without being logged; any other exception is
\* logged exactly once, under the name of the function that caught it, and
\* reaches the caller as SYSTEM_UNKNOWN_ERROR.
C18_PassThroughOrLogOnce ==
  /\ result.err \in {""} \cup ClassifiedErrors
  /\ result.err # "SYSTEM_UNKNOWN_ERROR" => result.log = <<>>
  /\ result.err = "SYSTEM_UNKNOWN_ERROR"
       => /\ Len(result.log) = 1
          /\ result.log[1] \in {result.op, "setAutonumber", "getCounterUpdater", "hasChild"}

\* C19: a fetchDocs, fetchDocsByIds or hasChild call that is given a
\* transaction and reads its query with getDocs writes a warning.
C19_FallbackWarns ==
  (/\ result.op \in {"fetchDocs", "fetchDocsByIds", "hasChild"}
   /\ out.transaction
   /\ out.queries # <<>>)
  => out.warns # <<>>

\* C20: hasChild returns the first descriptor, in declared order, whose
\* target holds a document referencing this.docId, after querying the
\* descriptors up to that one and no other; it returns false exactly when no
\* descriptor has such a document, after querying them all.
C20_FirstMatchingDescriptor ==
  (result.op = "hasChild" /\ result.docId # NoId /\ result.fault = "none")
  => LET matching == {k \in HasMany : children[k]}
         first == CHOOSE k \in matching : \A j \in matching : k <= j
     IN /\ result.err = ""
        /\ out.item = 0 <=> matching = {}
        /\ matching = {} => out.queries = [k \in HasMany |-> k]
        /\ matching # {} => /\ out.item = first
                            /\ out.queries = [k \in 1..first |-> k]

\* With documents under both descriptors, hasChild returned the first after
\* one query.
C20_Witness ==
  /\ result.op = "hasChild" /\ result.err = ""
  /\ children[1] /\ children[NumHasMany]
  /\ out.item = 1
  /\ out.queries = <<1>>

\* Whether a tuple is one createQueries is specified to accept: where; orderBy
\* with direction asc, desc or left out; limit with a positive number.
ValidTuple(t) ==
  \/ t.type = "where"
  \/ t.type = "orderBy" /\ t.direction \in {Undefined, "asc", "desc"}
  \/ t.type = "limit" /\ t.isNumber /\ t.n > 0

\* The fragment a valid tuple stands for.
FragmentOf(t) ==
  CASE t.type = "where" -> where(t.field, t.op, t.value)
    [] t.type = "orderBy" ->
         orderBy(t.field, IF t.direction = Undefined THEN "asc" ELSE t.direction)
    [] t.type = "limit" -> limit(t.n)

\* C21: createQueries on valid tuples returns as many fragments as tuples,
\* the i-th built from the i-th tuple (orderBy defaulting to asc only when the
\* direction is left out); when a tuple has a direction other than asc/desc, a
\* limit that is not a positive number or an unknown tag, the call fails with
\* a classified error and returns nothing, never substituting a default.
C21_QueriesFollowTuples ==
  result.op = "createQueries"
  => LET items == out.constraints.items
     IN IF \A k \in 1..Len(items) : ValidTuple(items[k])
          THEN /\ result.err = ""
               /\ Len(out.built) = Len(items)
               /\ \A k \in 1..Len(items) : out.built[k] = FragmentOf(items[k])
          ELSE /\ result.err \in {"VALIDATION_INVALID_ORDERBY_DIRECTION",
                                   "VALIDATION_INVALID_LIMIT", "VALIDATION_INVALID_QUERY_TYPE"}
               /\ out.built = <<>>

\* C22: for an accepted search string, createTokenMapQueries returns one
\* equality filter on tokenMap.<token> per distinct 1-character and contiguous
\* 2-character substring of the cleaned string (surrogates, ~ * [ ] and
\* whitespace removed), 1-character tokens first and each group in order of
\* first occurrence ("AB" gives A, B, AB); an empty or whitespace-only string
\* fails with VALIDATION_INVALID_CONSTRAINTS.
C22_TokensOfCleanedString ==
  result.op = "createTokenMapQueries"
  => LET chars == out.constraints.chars
         cleaned == SelectSeq(chars, LAMBDA ch : ch \notin Stripped)
         ones == {<<cleaned[i]>> : i \in 1..Len(cleaned)}
         twos == {<<cleaned[i], cleaned[i + 1]>> : i \in 1..(Len(cleaned) - 1)}
         token(k) == SubSeq(out.built[k].field, 3, Len(out.built[k].field))
         First(t) == CHOOSE i \in 1..Len(cleaned) :
                       /\ SubSeq(cleaned, i, i + Len(t) - 1) = t
                       /\ \A j \in 1..(i - 1) : SubSeq(cleaned, j, j + Len(t) - 1) # t
     IN IF \A k \in 1..Len(chars) : chars[k] \in Whitespace
          THEN /\ result.err = "VALIDATION_INVALID_CONSTRAINTS"
               /\ out.built = <<>>
          ELSE /\ result.err = ""
               /\ \A k \in 1..Len(out.built) :
                    /\ out.built[k] = where(<<"tokenMap", ".">> \o token(k), "==", "true")
                    /\ token(k) \in ones \cup twos
               /\ {token(k) : k \in 1..Len(out.built)} = ones \cup twos
               /\ Len(out.built) = Cardinality(ones \cup twos)
               /\ \A j, k \in 1..Len(out.built) :
                    j < k => \/ Len(token(j)) < Len(token(k))
                             \/ /\ Len(token(j)) = Len(token(k))
                                /\ First(token(j)) < First(token(k))
               /\ chars = <<"A", "B">>
                    => [k \in 1..Len(out.built) |-> token(k)] = <<(<<"A">>), <<"B">>, <<"A", "B">>>>

\* "AB C" gave the filters for A, B, C, AB, BC.
C22_Witness ==
  /\ result.op = "createTokenMapQueries" /\ result.err = ""
  /\ out.constraints.chars = <<"A", "B", " ", "C">>
  /\ [k \in 1..Len(out.built) |-> SubSeq(out.built[k].field, 3, Len(out.built[k].field))]
       = <<(<<"A">>), <<"B">>, <<"C">>, <<"A", "B">>, <<"B", "C">>>>

\* C23: a fetch that resolves loads the instance with the stored document and
\* returns true when it exists, and resets the instance and returns false
\* when it does not; a fetchDoc that resolves returns the document's data, or
\* null when there is none, and leaves the instance as it was; neither
\* changes the store.
C23_FetchHydratesFetchDocDetached ==
  [][/\ (result'.op = "fetch" /\ result'.err = "")
        => /\ out'.found = live[result'.docId].exists
           /\ inst' = IF live[result'.docId].exists THEN live[result'.docId].data ELSE NoData
           /\ Store' = Store
     /\ (result'.op = "fetchDoc" /\ result'.err = "")
        => /\ out'.found = live[result'.docId].exists
           /\ out'.data = IF live[result'.docId].exists THEN live[result'.docId].data
                          ELSE NoData
           /\ inst' = inst
           /\ Store' = Store]_vars

\* fetchDoc returned a stored document to an instance that holds another one.
C23_Witness ==
  /\ result.op = "fetchDoc" /\ result.err = ""
  /\ out.found
  /\ inst.docId # NoId
  /\ inst.docId # out.data.docId
  /\ live[inst.docId].exists

\* The counter field as a number: nothing counted while the document is
\* absent.
Count(k) == IF k.exists THEN k.count ELSE 0

C25_JoinedFailureCommitsNothing ==
  [][(out'.transaction /\ result'.op \in {"create", "update", "delete", "restore"}
      /\ result'.err # "")
     => Store' = Store]_vars

\* C26: a construction that returns leaves the class-level firestore handle
\* set, also after a reset; the firestore getter returns the class-level
\* handle whenever it is set and fails with SYSTEM_FIRESTORE_NOT_INITIALIZED
\* only while it is null.
C26_ConstructionSetsSharedHandle ==
  /\ (result.op = "constructor" /\ result.err = "") => ClientAdapter.firestore # Null
  /\ result.op = "firestore"
       => /\ result.err = "SYSTEM_FIRESTORE_NOT_INITIALIZED" <=> ClientAdapter.firestore = Null
          /\ result.err = "" <=> ClientAdapter.firestore # Null
          /\ result.err = "" => out.handle = ClientAdapter.firestore

\* After a reset and a second construction, on another app, the getter
\* returned that app's handle.
C26_Witness ==
  /\ result.op = "firestore" /\ result.err = ""
  /\ ClientAdapter.resets >= 1 /\ ClientAdapter.instances >= 2
  /\ out.handle = NumApps

\* The transactional reads and writes among the steps of a body.
TransactionalReads == {"get:autonumbers", "get:counter", "get:live", "get:archive"}
TransactionalWrites == {"set:live", "delete:live", "set:archive", "delete:archive",
                        "write:counter", "update:autonumbers"}

\* C27: in one execution of the body of a create, delete or restore, whether
\* it completes or throws, every transactional read (Autonumbers document,
\* counter document, source document, archive document) comes before every
\* write, the deferred counter and autonumber writes included.
C27_ReadsBeforeWrites ==
  result.op \in {"create", "delete", "restore"}
    => \A j, k \in DOMAIN out.events :
         (out.events[j] \in TransactionalReads /\ out.events[k] \in TransactionalWrites)
           => j < k

\* A logical delete that resolved: the counter and the source document were
\* read, then the archive copy, the deletion and the counter were written.
C27_Witness ==
  /\ result.op = "delete" /\ result.err = ""
  /\ \E j, k, l \in DOMAIN out.events :
       /\ out.events[j] = "get:live"
       /\ out.events[k] = "set:archive"
       /\ out.events[l] = "write:counter"

\* The steps of create in the order of its code.
CreateOrder == <<"beforeCreate", "beforeEdit", "validate", "get:autonumbers", "get:counter",
                 "set:live", "update:autonumbers", "write:counter", "callBack", "return">>

PlaceOf(event) == CHOOSE k \in DOMAIN CreateOrder : CreateOrder[k] = event

\* C28: the steps of a create that resolved are the hooks and validation,
\* the autonumber read (when setAutonumber is called), the counter read, the
\* document write, the autonumber update (when there is one), the counter
\* update, callBack (when one is given) and the return, each once and in
\* that order.
C28_CreateOrder ==
  (result.op = "create" /\ result.err = "")
    => /\ Range(out.events) \subseteq Range(CreateOrder)
       /\ \A j, k \in DOMAIN out.events :
            j < k => PlaceOf(out.events[j]) < PlaceOf(out.events[k])
       /\ {"beforeCreate", "beforeEdit", "validate", "get:counter", "set:live",
            "write:counter", "return"} \subseteq Range(out.events)
       /\ "callBack" \in Range(out.events) <=> result.callBack = "fn"
       /\ "get:autonumbers" \in Range(out.events) <=> result.auto
       /\ "update:autonumbers" \in Range(out.events) <=> result.auto

\* A create with a callBack resolved: the callBack ran after the document
\* and the counter were written and before the return.
C28_Witness ==
  /\ result.op = "create" /\ result.err = "" /\ result.cb
  /\ out.events = <<"beforeCreate", "beforeEdit", "validate", "get:counter", "set:live",
                     "write:counter", "callBack", "return">>

\* The creates the first n clients have committed.
RECURSIVE Committed(_)
Committed(n) == IF n = 0 THEN 0 ELSE txns[n].commits + Committed(n - 1)

\* C30: clients create documents concurrently, each in a transaction of its
\* own, in a collection that starts without a counter document: whatever the
\* interleaving and the re-executions, the counter counts every committed
\* create, so that once N creates have committed it is N.
C30_CounterCountsCommittedCreates ==
  /\ Count(counter) = Committed(NumClients)
  /\ Committed(NumClients) > 0 => counter.exists

\* Every client has committed one create of a document of its own, one of
\* them after its body ran again, and the counter is the number of clients.
C30_Witness ==
  /\ \A p \in Clients : txns[p].phase = "committed" /\ txns[p].commits = 1
  /\ \E p \in Clients : txns[p].attempts = 2
  /\ Cardinality({d \in Ids : live[d].exists}) = NumClients
  /\ counter.exists /\ counter.count = NumClients

\* C31: right after a delete of a document commits, no hasMany target holds
\* a document that references it, also when the child was added between the
\* delete's child check and its commit.
C31_DeleteLeavesNoChild ==
  [][\A p \in Clients :
       (/\ txns[p].phase = "ran" /\ txns'[p].phase = "committed"
        /\ txns[p].op = "delete" /\ txns[p].docId = Referenced)
       => \A k \in HasMany : ~children'[k]]_vars

\* C32: in every committed state no docId has both a live document and an
\* archive document, whatever creates, logical deletes and restores came
\* before.
C32_LiveOrArchived ==
  \A d \in Ids : ~(live[d].exists /\ archive[d].exists)

\* C33: an update that resolves has written the instance, stamped during the
\* call, at the instance's docId and nothing else: every other live
\* document, the archive, the counter document and the Autonumbers documents
\* are as before, and its body has issued no transactional read.
C33_UpdateWritesOneDocument ==
  [][(result'.op = "update" /\ result'.err = "")
     => /\ inst'.docId # NoId /\ result'.docId = inst'.docId
        /\ inst'.updatedAt = Now
        /\ live'[inst'.docId] = DocOf(inst')
        /\ \A d \in Ids \ {inst'.docId} : live'[d] = live[d]
        /\ archive' = archive
        /\ counter' = counter
        /\ autonumbers' = autonumbers
        /\ \A k \in DOMAIN out'.events : out'.events[k] \notin TransactionalReads]_vars

\* An update with a callBack resolved on a counted collection that holds
\* another document: the instance's value is stored under its docId.
C33_Witness ==
  /\ result.op = "update" /\ result.err = "" /\ result.cb
  /\ live[result.docId].data.val = NumVals
  /\ live[result.docId].data.updatedAt = Now
  /\ \E d \in Ids \ {result.docId} : live[d].exists
  /\ counter.exists

\* C34: while the instance holds no listener (unsubscribe has returned and
\* no subscription call has followed) the mirror list is empty, also when
\* unsubscribe was called from the callback of a snapshot that had changes
\* left to process.
C34_MirrorEmptyWithoutListener ==
  listener = NoListener => docs = <<>>

\* C35: a subscribe or subscribeDocs call that fails (no docId, rejected
\* constraints or options, or a failing registration) leaves the instance
\* without listener and with an empty mirror list, and no listener of the
\* instance registered: the subscription held before the call is cancelled.
C35_FailedSubscriptionCancels ==
  (result.op \in {"subscribe", "subscribeDocs"} /\ result.err # "")
    => /\ listener = NoListener
       /\ docs = <<>>
       /\ Registered = {}

\* A subscribeDocs call was rejected for its constraints while the instance
\* held a listener: that listener is cancelled.
C35_Witness ==
  /\ result.op = "subscribeDocs" /\ result.err # "" /\ result.fault = "none"
  /\ out.active
  /\ listeners # <<>> /\ listeners[Len(listeners)].cancels = 1
  /\ listener = NoListener

\* C36: a modified or removed change for a docId that this.docs does not
\* hold leaves every entry this.docs held in its place, and this.docs never
\* holds two entries with the same docId.
C36_AbsentChangeTouchesNothing ==
  /\ \A j, k \in DOMAIN docs : j # k => docs[j].docId # docs[k].docId
  /\ (/\ out.change # <<>>
      /\ out.change[1].type \in {"modified", "removed"}
      /\ \A k \in DOMAIN out.list : out.list[k].docId # out.change[1].item.docId)
     => \A k \in DOMAIN out.list : k \in DOMAIN docs /\ docs[k] = out.list[k]

\* C37: after a create that failed, the instance is as the caller prepared
\* it: it holds no docId, no stamp of the call and no autonumber code.
C37_FailedCreateLeavesInstance ==
  (result.op = "create" /\ result.err # "") => inst = NewInst(NoId, inst.val)

\* What an operation adds to the number of documents a collection counts.
Counted(op) == CASE op \in {"create", "restore"} -> 1 [] op = "delete" -> -1 [] OTHER -> 0

\* C38: when two operations have run on one transaction handle (the second
\* from the first one's callBack or after it), no transactional read was
\* issued after a transactional write, and when the transaction committed
\* the counter has changed by the number of documents the two operations
\* added and removed.
C38_SharedReadsPrecedeWrites ==
  [][out'.item = 2 /\ out'.events # <<>> /\ result'.callBack \in {"create", "delete", "restore"}
     => /\ \A j, k \in DOMAIN out'.events :
             (j < k /\ out'.events[j] \in TransactionalWrites)
               => out'.events[k] \notin TransactionalReads
        /\ result'.err = ""
             => counter'.count = counter.count + Counted(result'.op)
                                  + Counted(result'.callBack)]_vars

\* C39: a search string createTokenMapQueries accepts yields at least one
\* token filter, also when it is made only of characters the search strips.
C39_AcceptedStringYieldsFilter ==
  (result.op = "createTokenMapQueries" /\ result.err = "") => out.built # <<>>

====
